---- MODULE Spec2Model ----
(***************************************************************************)
(* Guardz: URL content aggregation service.                                *)
(*                                                                         *)
(* The module models                                                       *)
(*   - the DbProvider implementations: the InMemoryProvider behind its     *)
(*     sync.RWMutex, the PostgresProvider of internal/lookup behind        *)
(*     retry.Do and the gobreaker circuit breaker, and the GORM            *)
(*     PostgresProvider of internal/lookup/postgres;                       *)
(*   - validateURL / isPrivateIP (internal/handlers);                      *)
(*   - handleGetPath (internal/handlers): the fan-out of one goroutine per *)
(*     stored URL behind a semaphore, the result channel, the closer       *)
(*     goroutine and the collecting loop.                                  *)
(*                                                                         *)
(* Specifications:                                                         *)
(*   SpecStore    the provider selected by dbtype, called concurrently     *)
(*   SpecMem      the InMemoryProvider alone, called concurrently          *)
(*   SpecValidate the validation loop of handlePostPath over URL strings   *)
(*   SpecFetch    one handleGetPath call over a short stored list          *)
(*   SpecSem      one handleGetPath call over more URLs than slots         *)
(*   SpecPg       the PostgresProvider with a backend that fails           *)
(*   SpecHttp     POST and GET requests served one after the other         *)
(*   SpecCancel   one handleGetPath call whose caller may go away          *)
(*   SpecGorm     the GORM provider with a backend that fails              *)
(*   SpecTerm     one handleGetPath call from its start to its return      *)
(***************************************************************************)
EXTENDS Integers, Sequences, FiniteSets, TLC

(***************************************************************************)
(* Bounds of the model.                                                    *)
(***************************************************************************)
\* longest URL list handed to StoreURLsForPath
MaxLen == 2
\* StoreURLsForPath calls made to the PostgresProvider in one run (each one
\* appends rows to the urls table)
MaxStores == 2
\* StoreURLsForPath calls made in one run against a backend that can fail
MaxFaultStores == 1
\* goroutines calling the provider concurrently
NProcs == 2

Procs == 1..NProcs
Paths == {"a", "b"}
\* the provider never inspects a URL: two distinct strings are enough
StoreURLs == {"https://example.com", "https://httpbin.org/json"}

RECURSIVE SeqsUpTo(_, _)
SeqsUpTo(S, n) ==
    IF n = 0 THEN {<<>>}
    ELSE LET shorter == SeqsUpTo(S, n - 1)
         IN shorter \cup {Append(s, x) : s \in {t \in shorter : Len(t) = n - 1}, x \in S}

URLLists == SeqsUpTo(StoreURLs, MaxLen)

Range(s) == {s[i] : i \in 1..Len(s)}

None == "none"

VARIABLES
    \* ---- provider selection (DbProviderFactory.CreateProvider)
    dbtype,
    \* ---- InMemoryProvider
    paths,      \* map[string]uint64
    urls,       \* map[uint64][]string
    nextID,     \* uint64 counter
    mu,         \* sync.RWMutex: [writer |-> proc or 0, readers |-> set of procs]
    \* ---- PostgresProvider
    dbPaths,    \* table paths, committed rows: path -> id
    dbUrls,     \* table urls, committed rows in id order: [id, path_id, url]
    dbUp,       \* whether the backend answers
    cb,         \* gobreaker.CircuitBreaker: [state, requests, consecSucc, consecFail]
    attempts,   \* retry.Do: attempts made so far by each goroutine's call
    storeCalls, \* durable StoreURLsForPath calls started so far
    everDown,   \* history: the backend has been down at some time
    admitted,   \* each goroutine's attempt inside cb.Execute: "no" (none), "gen"
                \* (let through in the breaker's current generation), "old" (let
                \* through in a generation that has ended)
    cbHist,     \* history of the breaker, see CBHistInit
    callHist,   \* history of each goroutine's call, see CallHistInit
    pgLog,      \* history: path -> the lists of the committed Stores, in a row
    pgCuts,     \* history: path -> the lengths pgLog had after each commit
    \* ---- the calling goroutines
    pc,         \* where each goroutine stands in its call
    arg,        \* the call's arguments and locals: [path, urls, id]
    ret,        \* what the call returned: [recs, isNil, err]
    expect,     \* history: the list of the last Store on the call's path that had
                \* taken the write lock when the call took its read lock
    \* ---- history of the Store calls
    lastStored, \* path -> list of the last Store that took the write lock (memory)
                \* or committed (postgres)
    stale,      \* memory: path -> URLs of the previous list that the last list dropped
    \* ---- handlePostPath: the validation loop
    body,        \* body.URLs of the request
    postIdx,     \* how many entries of body.URLs the loop has handled
    validURLs,   \* []string
    invalidURLs, \* []string, each "url: error", kept as [url, err]
    \* ---- handleGetPath: one call
    gUrls,       \* the URLs of the records GetURLsByPath returned
    task,        \* each fetch goroutine: "wait" (before the semaphore send),
                 \* "run" (holds a slot), "done" (returned)
    semaphore,   \* how many values sit in the semaphore channel
    wg,          \* the WaitGroup counter
    resultChan,  \* the buffered channel: sequence of [index, result]
    chanClosed,  \* close(resultChan) has happened
    results,     \* the results slice, Null where nothing is stored yet
    response,    \* what the handler wrote: [status, results], status 0 before
    served,      \* history: what the network did for each task
    requested,   \* history: the URLs each task sent an HTTP request to
    \* ---- ServeHTTP: the request being served by the handler's goroutine
    hpc,         \* where the handler stands: "idle", "post_loop", "post_call",
                 \* "get_call", "get_fetch", "done"
    hpath,       \* the path of the request
    postResp,    \* what handlePostPath wrote: [status, text, count, invalid,
                 \* warning], status 0 before
    ctxDone      \* req.Context() of the request being served is cancelled

memVars == <<paths, urls, nextID, mu>>
pgHist == <<cbHist, callHist, pgLog, pgCuts>>
pgVars == <<dbPaths, dbUrls, dbUp, cb, attempts, storeCalls, everDown, admitted, pgHist>>
procVars == <<pc, arg, ret, expect>>
histVars == <<lastStored, stale>>
postVars == <<body, postIdx, validURLs, invalidURLs>>
getVars == <<gUrls, task, semaphore, wg, resultChan, chanClosed, results, response, served, requested>>
httpVars == <<hpc, hpath, postResp, ctxDone>>
handlerVars == <<postVars, getVars, httpVars>>
storeVars == <<dbtype, memVars, pgVars, procVars, histVars>>
vars == <<storeVars, handlerVars>>

NoArg == [op |-> None, path |-> None, urls |-> <<>>, id |-> 0]
NoRet == [recs |-> <<>>, isNil |-> TRUE, err |-> None]
NoResponse == [status |-> 0, results |-> <<>>]
NoPostResp == [status |-> 0, text |-> None, count |-> 0 - 1, invalid |-> <<>>, warning |-> FALSE]

(***************************************************************************)
(* InMemoryProvider                                                        *)
(***************************************************************************)

\* mutant: the counter starts at 0
MemInitZero ==
    /\ paths = <<>>
    /\ urls = <<>>
    /\ nextID = 0
    /\ mu = [writer |-> 0, readers |-> {}]

\* NewInMemoryProvider
MemInit ==
    /\ paths = <<>>
    /\ urls = <<>>
    /\ nextID = 1
    /\ mu = [writer |-> 0, readers |-> {}]

\* m.mu.Lock(): granted when no goroutine holds the lock in either mode
LockFree == mu.writer = 0 /\ mu.readers = {}

\* mutant: the read lock is granted while a writer holds the lock
RLockFreeIgnoringWriter == TRUE

\* m.mu.RLock(): granted when no writer holds the lock
RLockFree == mu.writer = 0

\* db_model.URLRecord for the i-th URL of a list
URLRecord(i, id, url) == [ID |-> i, PathID |-> id, URL |-> url]

\* the loop of GetURLsByPath over urls := m.urls[id]
RecordsOf(id, list) == [i \in 1..Len(list) |-> URLRecord(i, id, list[i])]

\* m.urls[id] of a Go map: the zero value (nil slice) when the key is absent
MapUrls(id) == IF id \in DOMAIN urls THEN urls[id] ELSE <<>>

\* mutant: an unknown path is reported as an error
GetURLsByPathNotFound(path) ==
    IF path \notin DOMAIN paths
    THEN [recs |-> <<>>, isNil |-> TRUE, err |-> "path not found"]
    ELSE [recs |-> RecordsOf(paths[path], MapUrls(paths[path])),
          isNil |-> FALSE, err |-> "nil"]

\* the body of GetURLsByPath under the read lock
GetURLsByPath(path) ==
    IF path \notin DOMAIN paths
    THEN [recs |-> <<>>, isNil |-> TRUE, err |-> "nil"]
    ELSE [recs |-> RecordsOf(paths[path], MapUrls(paths[path])),
          isNil |-> FALSE, err |-> "nil"]

\* mutant: the new URLs are appended to the path's current list
StoredListAppended(id, list) == MapUrls(id) \o list

\* m.urls[id] = append([]string{}, urls...)
StoredList(id, list) == list

URLsOf(recs) == [i \in 1..Len(recs) |-> recs[i].URL]

\* StoreURLsForPath: m.mu.Lock()
MemStoreLock(p, path, list) ==
    /\ dbtype = "memory"
    /\ pc[p] = "idle"
    /\ LockFree
    /\ mu' = [mu EXCEPT !.writer = p]
    /\ pc' = [pc EXCEPT ![p] = "st_locked"]
    /\ arg' = [arg EXCEPT ![p] = [op |-> "store", path |-> path, urls |-> list, id |-> 0]]
    /\ lastStored' = (path :> list) @@ lastStored
    /\ stale' = [stale EXCEPT ![path] =
                    IF path \in DOMAIN lastStored
                    THEN Range(lastStored[path]) \ Range(list) ELSE {}]
    /\ UNCHANGED <<handlerVars, dbtype, pgVars, paths, urls, nextID, ret, expect>>

\* mutant: every new path is given the id 1
MemStoreAssignIDShared(p) ==
    /\ pc[p] = "st_locked"
    /\ IF arg[p].path \in DOMAIN paths
       THEN /\ arg' = [arg EXCEPT ![p].id = paths[arg[p].path]]
            /\ UNCHANGED <<paths, nextID>>
       ELSE /\ arg' = [arg EXCEPT ![p].id = 1]
            /\ paths' = (arg[p].path :> 1) @@ paths
            /\ nextID' = nextID + 1
    /\ pc' = [pc EXCEPT ![p] = "st_id"]
    /\ UNCHANGED <<handlerVars, dbtype, pgVars, urls, mu, ret, expect, histVars>>

\* StoreURLsForPath: id, ok := m.paths[path]; if !ok { ... m.nextID++ }
MemStoreAssignID(p) ==
    /\ pc[p] = "st_locked"
    /\ IF arg[p].path \in DOMAIN paths
       THEN /\ arg' = [arg EXCEPT ![p].id = paths[arg[p].path]]
            /\ UNCHANGED <<paths, nextID>>
       ELSE /\ arg' = [arg EXCEPT ![p].id = nextID]
            /\ paths' = (arg[p].path :> nextID) @@ paths
            /\ nextID' = nextID + 1
    /\ pc' = [pc EXCEPT ![p] = "st_id"]
    /\ UNCHANGED <<handlerVars, dbtype, pgVars, urls, mu, ret, expect, histVars>>

\* StoreURLsForPath: m.urls[id] = append([]string{}, urls...)
MemStoreWrite(p) ==
    /\ pc[p] = "st_id"
    /\ urls' = (arg[p].id :> StoredList(arg[p].id, arg[p].urls)) @@ urls
    /\ pc' = [pc EXCEPT ![p] = "st_written"]
    /\ UNCHANGED <<handlerVars, dbtype, pgVars, paths, nextID, mu, arg, ret, expect, histVars>>

\* StoreURLsForPath: return nil, then the deferred m.mu.Unlock()
MemStoreReturns(p) ==
    /\ pc[p] = "st_written"
    /\ mu' = [mu EXCEPT !.writer = IF mu.writer = p THEN 0 ELSE mu.writer]
    /\ pc' = [pc EXCEPT ![p] = "idle"]
    /\ arg' = [arg EXCEPT ![p] = NoArg]
    /\ UNCHANGED <<dbtype, pgVars, paths, urls, nextID, ret, expect, histVars>>

MemStoreUnlock(p) == MemStoreReturns(p) /\ UNCHANGED handlerVars

\* GetURLsByPath: m.mu.RLock()
MemGetRLock(p, path) ==
    /\ dbtype = "memory"
    /\ pc[p] = "idle"
    /\ RLockFree
    /\ mu' = [mu EXCEPT !.readers = @ \cup {p}]
    /\ pc' = [pc EXCEPT ![p] = "get_locked"]
    /\ arg' = [arg EXCEPT ![p] = [op |-> "get", path |-> path, urls |-> <<>>, id |-> 0]]
    /\ expect' = [expect EXCEPT ![p] =
                    IF path \in DOMAIN lastStored THEN lastStored[path] ELSE None]
    /\ UNCHANGED <<handlerVars, dbtype, pgVars, paths, urls, nextID, ret, histVars>>

\* GetURLsByPath: the lookup and the loop building the records
MemGetRead(p) ==
    /\ pc[p] = "get_locked"
    /\ ret' = [ret EXCEPT ![p] = GetURLsByPath(arg[p].path)]
    /\ pc' = [pc EXCEPT ![p] = "get_read"]
    /\ UNCHANGED <<handlerVars, dbtype, pgVars, memVars, arg, expect, histVars>>

\* mutant: GetURLsByPath returns with the read lock still held
MemGetReturnsLocked(p) ==
    /\ pc[p] = "get_read"
    /\ pc' = [pc EXCEPT ![p] = "idle"]
    /\ arg' = [arg EXCEPT ![p] = NoArg]
    /\ ret' = [ret EXCEPT ![p] = NoRet]
    /\ expect' = [expect EXCEPT ![p] = None]
    /\ UNCHANGED <<dbtype, pgVars, paths, urls, nextID, mu, histVars>>

\* GetURLsByPath: return records, nil, then the deferred m.mu.RUnlock()
MemGetReturns(p) ==
    /\ pc[p] = "get_read"
    /\ mu' = [mu EXCEPT !.readers = @ \ {p}]
    /\ pc' = [pc EXCEPT ![p] = "idle"]
    /\ arg' = [arg EXCEPT ![p] = NoArg]
    /\ ret' = [ret EXCEPT ![p] = NoRet]
    /\ expect' = [expect EXCEPT ![p] = None]
    /\ UNCHANGED <<dbtype, pgVars, paths, urls, nextID, histVars>>

MemGetRUnlock(p) == MemGetReturns(p) /\ UNCHANGED handlerVars


(***************************************************************************)
(* PostgresProvider: retry.Do around cb.Execute around the database        *)
(***************************************************************************)

\* gobreaker.Settings.MaxRequests
MaxRequests == 5
\* ReadyToTrip: counts.ConsecutiveFailures > 3
TripThreshold == 3
\* retry.Attempts(3)
RetryAttempts == 3

CBClosed == [state |-> "closed", requests |-> 0, consecSucc |-> 0, consecFail |-> 0]

Min(a, b) == IF a < b THEN a ELSE b

\* history of the breaker:
\*   failRun  backend attempts that failed in a row, with no successful one
\*            in between (counted up to TripThreshold + 1)
\*   openExec an attempt was let through to the backend while the breaker was open
\*   probes   attempts let through since the breaker last became half-open
\*   ops      the operations ("store", "get") whose failures make up the
\*            breaker's count or, once it is open, made it trip
CBHistInit == [failRun |-> 0, openExec |-> FALSE, probes |-> 0, ops |-> {}]

\* history of one call: succ attempts returned a nil error, late attempts
\* began after one had returned a nil error, rows is how many rows the path
\* had when the query of a GetURLsByPath ran, wrote is how many rows the
\* attempts of a StoreURLsForPath have added to urls
CallHistInit == [succ |-> 0, late |-> 0, rows |-> 0, wrote |-> 0]

\* NewPostgresProvider, after the schema has been created
PgInit ==
    /\ dbPaths = <<>>
    /\ dbUrls = <<>>
    /\ dbUp = TRUE
    /\ cb = CBClosed
    /\ attempts = [p \in Procs |-> 0]
    /\ storeCalls = 0
    /\ everDown = FALSE
    /\ admitted = [p \in Procs |-> "no"]
    /\ cbHist = CBHistInit
    /\ callHist = [p \in Procs |-> CallHistInit]
    /\ pgLog = [q \in Paths |-> <<>>]
    /\ pgCuts = [q \in Paths |-> {0}]

\* mutant: the breaker trips one failure early
ReadyToTripEarly(counts) == counts.consecFail >= TripThreshold

\* mutant: the breaker trips one failure later
ReadyToTripLate(counts) == counts.consecFail > TripThreshold + 1

ReadyToTrip(counts) == counts.consecFail > TripThreshold

\* mutant: the half-open breaker lets every request through
CBBeforeNoProbeLimit(b) ==
    IF b.state = "open" THEN "circuit breaker is open" ELSE "nil"

\* gobreaker beforeRequest: the error it returns, or "nil" when the request may pass
CBBefore(b) ==
    IF b.state = "open" THEN "circuit breaker is open"
    ELSE IF b.state = "half-open" /\ b.requests >= MaxRequests THEN "too many requests"
    ELSE "nil"

\* mutant: GetURLsByPath runs behind a breaker of its own that never opens
ExecuteBreakerPerMethod(b, op) == IF op = "store" THEN b ELSE CBClosed

\* p.cb of `p.cb.Execute(...)` in StoreURLsForPath and in GetURLsByPath: the
\* one breaker of the provider
ExecuteBreaker(b, op) == b

\* gobreaker counts.onRequest. Requests and ConsecutiveSuccesses are read only in
\* the half-open state (beforeRequest, onSuccess): the closed state keeps them at 0
CBOnRequest(b) == IF b.state = "half-open" THEN [b EXCEPT !.requests = @ + 1] ELSE b

\* gobreaker onSuccess
CBOnSuccess(b) ==
    IF b.state = "half-open"
    THEN IF b.consecSucc + 1 >= MaxRequests THEN CBClosed
         ELSE [b EXCEPT !.consecSucc = @ + 1, !.consecFail = 0]
    ELSE [b EXCEPT !.consecFail = 0]

\* gobreaker onFailure
CBOnFailure(b) ==
    LET c == [b EXCEPT !.consecFail = @ + 1, !.consecSucc = 0]
    IN IF c.state = "half-open" \/ (c.state = "closed" /\ ReadyToTrip(c))
       THEN [CBClosed EXCEPT !.state = "open"]
       ELSE c

\* mutant: every outcome is counted, whatever its generation
CBAfterAnyGeneration(b, adm, success) ==
    IF success THEN CBOnSuccess(b) ELSE CBOnFailure(b)

\* gobreaker afterRequest: the outcome of an attempt let through in an earlier
\* generation is dropped (generation != before)
CBAfter(b, adm, success) ==
    IF adm # "gen" THEN b
    ELSE IF success THEN CBOnSuccess(b) ELSE CBOnFailure(b)

\* toNewGeneration: every attempt in flight now belongs to an earlier generation
Outdated(adm) == [q \in Procs |-> IF adm[q] = "gen" THEN "old" ELSE adm[q]]

\* the rows of urls joined to the path, ORDER BY u.id ASC
PgRowsOf(path) ==
    IF path \notin DOMAIN dbPaths THEN <<>>
    ELSE SelectSeq(dbUrls, LAMBDA r : r.path_id = dbPaths[path])

\* getURLsByPath: records stays nil when the query yields no row
PgGetURLsByPath(path) ==
    LET rows == PgRowsOf(path)
    IN [recs |-> [i \in 1..Len(rows) |->
                    [ID |-> rows[i].id, PathID |-> rows[i].path_id, URL |-> rows[i].url]],
        isNil |-> rows = <<>>, err |-> "nil"]

\* INSERT INTO paths ... ON CONFLICT (path) DO UPDATE ... RETURNING id
PgUpsertPath(path) ==
    IF path \in DOMAIN dbPaths THEN dbPaths
    ELSE (path :> Cardinality(DOMAIN dbPaths) + 1) @@ dbPaths

\* the COPY of the list into urls
PgInsertURLs(pathID, list) ==
    dbUrls \o [i \in 1..Len(list) |->
                 [id |-> Len(dbUrls) + i, path_id |-> pathID, url |-> list[i]]]

\* the steps of one StoreURLsForPath transaction at which it can fail
TxSteps(list) ==
    {[name |-> n, k |-> 0] :
        n \in IF list = <<>> THEN {"begin", "upsert", "commit"}
              ELSE {"begin", "upsert", "prepare", "finalize", "commit"}}
    \cup {[name |-> "exec", k |-> k] : k \in 1..Len(list)}

\* the error StoreURLsForPath's function returns for a failure at the step
TxError(step) ==
    CASE step.name = "begin" -> "failed to begin transaction"
      [] step.name = "upsert" -> "failed to get or create path"
      [] step.name = "prepare" -> "failed to prepare bulk insert"
      [] step.name = "exec" -> "failed to exec bulk insert"
      [] step.name = "finalize" -> "failed to finalize bulk insert"
      [] step.name = "commit" -> "failed to commit transaction"

\* what the transaction had written when the step failed: whether the path
\* was upserted and how many URLs were copied
TxWritten(list, step) ==
    [upsert |-> step.name \notin {"begin", "upsert"},
     rows |-> IF step.name = "exec" THEN step.k - 1
              ELSE IF step.name \in {"finalize", "commit"} THEN Len(list)
              ELSE 0]

\* the tables with the transaction's writes
TxApply(w, path, list) ==
    LET ps == IF w.upsert THEN PgUpsertPath(path) ELSE dbPaths
    IN [paths |-> ps,
        urls |-> IF w.rows > 0 THEN PgInsertURLs(ps[path], SubSeq(list, 1, w.rows))
                 ELSE dbUrls]

\* mutant: the statements run outside a transaction, a failure keeps what
\* was written before it
AfterRollbackKeepsWrites(w, path, list) == TxApply(w, path, list)

\* the committed tables after tx.Rollback() (or a failed Commit)
AfterRollback(w, path, list) == [paths |-> dbPaths, urls |-> dbUrls]

\* the committed tables after tx.Commit()
AfterCommit(path, list) == TxApply([upsert |-> TRUE, rows |-> Len(list)], path, list)

\* mutant: one more attempt is made
RetryDecisionOneMore(n, err) ==
    IF err = "nil" THEN "done"
    ELSE IF n >= RetryAttempts + 1 THEN "fail"
    ELSE "again"

\* retry.Do after the n-th attempt returned err: return nil, give up with the
\* error, or run the function again
RetryDecision(n, err) ==
    IF err = "nil" THEN "done"
    ELSE IF n >= RetryAttempts THEN "fail"
    ELSE "again"

\* where the call of p goes after an attempt that returned r
AfterAttempt(p, r) ==
    LET d == RetryDecision(attempts[p] + 1, r.err)
    IN /\ attempts' = [attempts EXCEPT ![p] = @ + 1]
       /\ IF d = "again"
          THEN UNCHANGED <<pc, ret>>
          ELSE /\ pc' = [pc EXCEPT ![p] = "pg_ret"]
               /\ ret' = [ret EXCEPT ![p] = r]

ErrRet(e) == [recs |-> <<>>, isNil |-> TRUE, err |-> e]

\* the breaker's history after an attempt was let through in state b
HistBegin(h, b) ==
    [h EXCEPT !.openExec = @ \/ b.state = "open",
              !.probes = IF b.state = "half-open" THEN @ + 1 ELSE @]

\* the breaker's history after an attempt let through as adm ended, the
\* breaker going from b to b2
HistEnd(h, adm, success, b, b2) ==
    [h EXCEPT
       !.failRun = IF success THEN 0 ELSE Min(@ + 1, TripThreshold + 1),
       !.probes = IF b2.state = "half-open" THEN @ ELSE 0]

\* the operations behind the breaker's count after an attempt of op, let
\* through as adm, ended
HistOps(h, op, adm, success) ==
    IF adm # "gen" THEN h
    ELSE [h EXCEPT !.ops = IF success THEN {} ELSE @ \cup {op}]

\* admitted after the attempt of p ended, the breaker going from b to b2
AdmittedAfter(p, b, b2) ==
    [(IF b2.state # b.state THEN Outdated(admitted) ELSE admitted) EXCEPT ![p] = "no"]

\* getURLsByPath when rows.Next() stops after k rows because the connection
\* failed: the loop ends, rows.Err() is never read, the rows read so far are
\* returned with a nil error
PgGetURLsByPathCut(path, k) ==
    LET r == PgGetURLsByPath(path)
    IN [recs |-> SubSeq(r.recs, 1, k), isNil |-> k = 0, err |-> "nil"]

notPgVars == <<handlerVars, dbtype, memVars>>

\* StoreURLsForPath is called
PgStoreCall(p, path, list) ==
    /\ dbtype = "postgres"
    /\ pc[p] = "idle"
    /\ storeCalls < MaxStores
    /\ storeCalls' = storeCalls + 1
    /\ pc' = [pc EXCEPT ![p] = "pg_store"]
    /\ arg' = [arg EXCEPT ![p] = [op |-> "store", path |-> path, urls |-> list, id |-> 0]]
    /\ attempts' = [attempts EXCEPT ![p] = 0]
    /\ callHist' = [callHist EXCEPT ![p] = CallHistInit]
    /\ UNCHANGED <<notPgVars, dbPaths, dbUrls, dbUp, cb, everDown, admitted, cbHist,
                   pgLog, pgCuts, ret, expect, histVars>>

\* GetURLsByPath is called
PgGetCall(p, path) ==
    /\ dbtype = "postgres"
    /\ pc[p] = "idle"
    /\ pc' = [pc EXCEPT ![p] = "pg_get"]
    /\ arg' = [arg EXCEPT ![p] = [op |-> "get", path |-> path, urls |-> <<>>, id |-> 0]]
    /\ attempts' = [attempts EXCEPT ![p] = 0]
    /\ callHist' = [callHist EXCEPT ![p] = CallHistInit]
    /\ UNCHANGED <<notPgVars, dbPaths, dbUrls, dbUp, cb, storeCalls, everDown, admitted,
                   cbHist, pgLog, pgCuts, ret, expect, histVars>>

\* cb.Execute, beforeRequest lets the attempt through: the function starts
PgAttemptBegin(p) ==
    /\ pc[p] \in {"pg_store", "pg_get"}
    /\ admitted[p] = "no"
    /\ CBBefore(ExecuteBreaker(cb, arg[p].op)) = "nil"
    /\ cb' = CBOnRequest(cb)
    /\ admitted' = [admitted EXCEPT ![p] = "gen"]
    /\ cbHist' = HistBegin(cbHist, cb)
    /\ callHist' = [callHist EXCEPT ![p].late = IF callHist[p].succ > 0 THEN @ + 1 ELSE @]
    /\ UNCHANGED <<notPgVars, dbPaths, dbUrls, dbUp, attempts, storeCalls, everDown,
                   pgLog, pgCuts, procVars, histVars>>

\* cb.Execute, beforeRequest rejects the attempt: the function is not executed
PgAttemptRejected(p) ==
    /\ pc[p] \in {"pg_store", "pg_get"}
    /\ admitted[p] = "no"
    /\ CBBefore(ExecuteBreaker(cb, arg[p].op)) # "nil"
    /\ AfterAttempt(p, ErrRet(CBBefore(ExecuteBreaker(cb, arg[p].op))))
    /\ UNCHANGED <<notPgVars, dbPaths, dbUrls, dbUp, cb, storeCalls, everDown, admitted,
                   pgHist, arg, expect, histVars>>

\* the function of StoreURLsForPath fails at a step: the transaction is rolled back
PgStoreAttemptFail(p, step) ==
    /\ pc[p] = "pg_store"
    /\ admitted[p] # "no"
    /\ ~dbUp
    /\ step \in TxSteps(arg[p].urls)
    /\ LET t == AfterRollback(TxWritten(arg[p].urls, step), arg[p].path, arg[p].urls)
       IN dbPaths' = t.paths /\ dbUrls' = t.urls
    /\ cb' = CBAfter(cb, admitted[p], FALSE)
    /\ admitted' = AdmittedAfter(p, cb, cb')
    /\ cbHist' = HistOps(HistEnd(cbHist, admitted[p], FALSE, cb, cb'), arg[p].op, admitted[p], FALSE)
    /\ callHist' = [callHist EXCEPT ![p].wrote = @ + Len(dbUrls') - Len(dbUrls)]
    /\ AfterAttempt(p, ErrRet(TxError(step)))
    /\ UNCHANGED <<notPgVars, dbUp, storeCalls, everDown, pgLog, pgCuts,
                   arg, expect, histVars>>

\* the function of GetURLsByPath fails: p.db.Query or rows.Scan returns an error
PgGetAttemptFail(p) ==
    /\ pc[p] = "pg_get"
    /\ admitted[p] # "no"
    /\ ~dbUp
    /\ cb' = CBAfter(cb, admitted[p], FALSE)
    /\ admitted' = AdmittedAfter(p, cb, cb')
    /\ cbHist' = HistOps(HistEnd(cbHist, admitted[p], FALSE, cb, cb'), arg[p].op, admitted[p], FALSE)
    /\ AfterAttempt(p, ErrRet("query failed"))
    /\ UNCHANGED <<notPgVars, dbPaths, dbUrls, dbUp, storeCalls, everDown, callHist,
                   pgLog, pgCuts, arg, expect, histVars>>

\* the function of StoreURLsForPath commits
PgStoreAttemptOK(p) ==
    /\ pc[p] = "pg_store"
    /\ admitted[p] # "no"
    /\ dbUp
    /\ LET t == AfterCommit(arg[p].path, arg[p].urls)
       IN dbPaths' = t.paths /\ dbUrls' = t.urls
    /\ cb' = CBAfter(cb, admitted[p], TRUE)
    /\ admitted' = AdmittedAfter(p, cb, cb')
    /\ cbHist' = HistOps(HistEnd(cbHist, admitted[p], TRUE, cb, cb'), arg[p].op, admitted[p], TRUE)
    /\ callHist' = [callHist EXCEPT ![p].succ = @ + 1,
                                     ![p].wrote = @ + Len(dbUrls') - Len(dbUrls)]
    /\ pgLog' = [pgLog EXCEPT ![arg[p].path] = @ \o arg[p].urls]
    /\ pgCuts' = [pgCuts EXCEPT ![arg[p].path] = @ \cup {Len(pgLog'[arg[p].path])}]
    /\ AfterAttempt(p, [recs |-> <<>>, isNil |-> TRUE, err |-> "nil"])
    /\ lastStored' = (arg[p].path :> arg[p].urls) @@ lastStored
    /\ UNCHANGED <<notPgVars, dbUp, storeCalls, everDown, arg, expect, stale>>

\* the function of GetURLsByPath reads every row
PgGetAttemptOK(p) ==
    /\ pc[p] = "pg_get"
    /\ admitted[p] # "no"
    /\ dbUp
    /\ cb' = CBAfter(cb, admitted[p], TRUE)
    /\ admitted' = AdmittedAfter(p, cb, cb')
    /\ cbHist' = HistOps(HistEnd(cbHist, admitted[p], TRUE, cb, cb'), arg[p].op, admitted[p], TRUE)
    /\ callHist' = [callHist EXCEPT ![p].succ = @ + 1,
                                     ![p].rows = Len(PgRowsOf(arg[p].path))]
    /\ AfterAttempt(p, PgGetURLsByPath(arg[p].path))
    /\ expect' = [expect EXCEPT ![p] = IF arg[p].path \in DOMAIN lastStored
                                        THEN lastStored[arg[p].path] ELSE None]
    /\ UNCHANGED <<notPgVars, dbPaths, dbUrls, dbUp, storeCalls, everDown, pgLog, pgCuts,
                   arg, histVars>>

\* the connection fails while the function of GetURLsByPath iterates over the
\* rows, k rows read: the function returns them with a nil error
PgGetAttemptCut(p, k) ==
    /\ pc[p] = "pg_get"
    /\ admitted[p] # "no"
    /\ ~dbUp
    /\ k \in 0..Len(PgRowsOf(arg[p].path))
    /\ cb' = CBAfter(cb, admitted[p], TRUE)
    /\ admitted' = AdmittedAfter(p, cb, cb')
    /\ cbHist' = HistOps(HistEnd(cbHist, admitted[p], TRUE, cb, cb'), arg[p].op, admitted[p], TRUE)
    /\ callHist' = [callHist EXCEPT ![p].succ = @ + 1,
                                     ![p].rows = Len(PgRowsOf(arg[p].path))]
    /\ AfterAttempt(p, PgGetURLsByPathCut(arg[p].path, k))
    /\ expect' = [expect EXCEPT ![p] = IF arg[p].path \in DOMAIN lastStored
                                        THEN lastStored[arg[p].path] ELSE None]
    /\ UNCHANGED <<notPgVars, dbPaths, dbUrls, dbUp, storeCalls, everDown, pgLog, pgCuts,
                   arg, histVars>>

\* the call returns to its caller
PgReturns(p) ==
    /\ pc[p] = "pg_ret"
    /\ pc' = [pc EXCEPT ![p] = "idle"]
    /\ arg' = [arg EXCEPT ![p] = NoArg]
    /\ ret' = [ret EXCEPT ![p] = NoRet]
    /\ attempts' = [attempts EXCEPT ![p] = 0]
    /\ callHist' = [callHist EXCEPT ![p] = CallHistInit]
    /\ expect' = [expect EXCEPT ![p] = None]
    /\ UNCHANGED <<dbtype, memVars, dbPaths, dbUrls, dbUp, cb, storeCalls, everDown,
                   admitted, cbHist, pgLog, pgCuts, histVars>>

PgReturn(p) == PgReturns(p) /\ UNCHANGED handlerVars

\* gobreaker Timeout (10 s) elapses on an open breaker: the next generation
\* is half-open
CBCooldownElapsed ==
    /\ dbtype = "postgres"
    /\ cb.state = "open"
    /\ cb' = [CBClosed EXCEPT !.state = "half-open"]
    /\ admitted' = Outdated(admitted)
    /\ cbHist' = [cbHist EXCEPT !.probes = 0, !.ops = {}]
    /\ UNCHANGED <<notPgVars, dbPaths, dbUrls, dbUp, attempts, storeCalls, everDown,
                   callHist, pgLog, pgCuts, procVars, histVars>>

\* gobreaker Interval (60 s) elapses on a closed breaker: the counts are
\* cleared and a new generation begins
CBIntervalElapsed ==
    /\ dbtype = "postgres"
    /\ cb.state = "closed"
    /\ cb # CBClosed \/ \E q \in Procs : admitted[q] = "gen"
    /\ cb' = CBClosed
    /\ admitted' = Outdated(admitted)
    /\ cbHist' = [cbHist EXCEPT !.ops = {}]
    /\ UNCHANGED <<notPgVars, dbPaths, dbUrls, dbUp, attempts, storeCalls, everDown,
                   callHist, pgLog, pgCuts, procVars, histVars>>

\* the backend goes down
BackendDown ==
    /\ dbtype # "memory"
    /\ dbUp
    /\ dbUp' = FALSE
    /\ everDown' = TRUE
    /\ UNCHANGED <<notPgVars, dbPaths, dbUrls, cb, attempts, storeCalls, admitted, pgHist,
                   procVars, histVars>>

\* the backend comes back
BackendUp ==
    /\ dbtype # "memory"
    /\ ~dbUp
    /\ dbUp' = TRUE
    /\ UNCHANGED <<notPgVars, dbPaths, dbUrls, cb, attempts, storeCalls, everDown, admitted,
                   pgHist, procVars, histVars>>
(***************************************************************************)
(* validateURL / isPrivateIP                                               *)
(***************************************************************************)

\* net.IP values are 16 bytes; an IPv4 address is stored IPv4-in-IPv6 (net.IPv4)
V4(a, b, c, d) == <<0, 0, 0, 0, 0, 0, 0, 0, 0, 0, 255, 255, a, b, c, d>>

\* an IPv6 address from its eight 16-bit groups
V6(g) == [i \in 1..16 |-> IF i % 2 = 1 THEN g[(i + 1) \div 2] \div 256
                                       ELSE g[i \div 2] % 256]

NoIP == <<>>

\* what url.Parse followed by URL.Hostname() and net.ParseIP give for a string:
\* [ok, scheme, host, ip]; ip is NoIP when the host is not an IP literal
Parsed(scheme, host, ip) == [ok |-> TRUE, scheme |-> scheme, host |-> host, ip |-> ip]
ParseError == [ok |-> FALSE, scheme |-> "", host |-> "", ip |-> NoIP]

\* the URL strings of the model with their parse (fe80 = 65152, febf = 65215,
\* fec0 = 65216, fe7f = 65151, fc00 = 64512, fdff = 65023, fe00 = 65024,
\* fbff = 64511, 2001 = 8193, db8 = 3512, ffff = 65535)
URLTable ==
    [u \in {} |-> ParseError]
    @@ ("https://example.com" :> Parsed("https", "example.com", NoIP))
    @@ ("https://httpbin.org/json" :> Parsed("https", "httpbin.org", NoIP))
    @@ ("http://example.org:8080/a?b=c" :> Parsed("http", "example.org", NoIP))
    @@ ("HTTP://EXAMPLE.COM/" :> Parsed("http", "EXAMPLE.COM", NoIP))
    @@ ("http://127.0.0.1/x" :> Parsed("http", "127.0.0.1", V4(127, 0, 0, 1)))
    @@ ("http://127.0.0.1:8080/api" :> Parsed("http", "127.0.0.1", V4(127, 0, 0, 1)))
    @@ ("http://localhost/x" :> Parsed("http", "localhost", NoIP))
    @@ ("http://localhost:8080/api" :> Parsed("http", "localhost", NoIP))
    @@ ("http://LOCALHOST/" :> Parsed("http", "LOCALHOST", NoIP))
    @@ ("http://[::1]:8080/api" :> Parsed("http", "::1", V6(<<0, 0, 0, 0, 0, 0, 0, 1>>)))
    @@ ("http://[::2]/" :> Parsed("http", "::2", V6(<<0, 0, 0, 0, 0, 0, 0, 2>>)))
    @@ ("http://192.168.1.1:8080/api" :> Parsed("http", "192.168.1.1", V4(192, 168, 1, 1)))
    @@ ("ftp://x/y" :> Parsed("ftp", "x", NoIP))
    @@ ("ftp://example.com/file" :> Parsed("ftp", "example.com", NoIP))
    @@ ("file:///etc/passwd" :> Parsed("file", "", NoIP))
    @@ ("data:text/plain;base64,SGVsbG8=" :> Parsed("data", "", NoIP))
    @@ ("not-a-url" :> Parsed("", "", NoIP))
    @@ ("://missing-scheme" :> ParseError)
    @@ ("http://[::1" :> ParseError)
    @@ ("http:///path" :> Parsed("http", "", NoIP))
    @@ ("http://2130706433/" :> Parsed("http", "2130706433", NoIP))
    @@ ("http://user@10.0.0.1/" :> Parsed("http", "10.0.0.1", V4(10, 0, 0, 1)))
    @@ ("http://127.0.0.2/" :> Parsed("http", "127.0.0.2", V4(127, 0, 0, 2)))
    @@ ("http://127.255.255.255/" :> Parsed("http", "127.255.255.255", V4(127, 255, 255, 255)))
    @@ ("http://126.255.255.255/" :> Parsed("http", "126.255.255.255", V4(126, 255, 255, 255)))
    @@ ("http://128.0.0.0/" :> Parsed("http", "128.0.0.0", V4(128, 0, 0, 0)))
    @@ ("http://9.255.255.255/" :> Parsed("http", "9.255.255.255", V4(9, 255, 255, 255)))
    @@ ("http://10.0.0.0/" :> Parsed("http", "10.0.0.0", V4(10, 0, 0, 0)))
    @@ ("http://10.255.255.255/" :> Parsed("http", "10.255.255.255", V4(10, 255, 255, 255)))
    @@ ("http://11.0.0.0/" :> Parsed("http", "11.0.0.0", V4(11, 0, 0, 0)))
    @@ ("http://172.15.255.255/" :> Parsed("http", "172.15.255.255", V4(172, 15, 255, 255)))
    @@ ("http://172.16.0.0/" :> Parsed("http", "172.16.0.0", V4(172, 16, 0, 0)))
    @@ ("http://172.31.255.255/" :> Parsed("http", "172.31.255.255", V4(172, 31, 255, 255)))
    @@ ("http://172.32.0.0/" :> Parsed("http", "172.32.0.0", V4(172, 32, 0, 0)))
    @@ ("http://192.167.255.255/" :> Parsed("http", "192.167.255.255", V4(192, 167, 255, 255)))
    @@ ("http://192.168.0.0/" :> Parsed("http", "192.168.0.0", V4(192, 168, 0, 0)))
    @@ ("http://192.168.255.255/" :> Parsed("http", "192.168.255.255", V4(192, 168, 255, 255)))
    @@ ("http://192.169.0.0/" :> Parsed("http", "192.169.0.0", V4(192, 169, 0, 0)))
    @@ ("http://169.253.255.255/" :> Parsed("http", "169.253.255.255", V4(169, 253, 255, 255)))
    @@ ("http://169.254.169.254/latest" :> Parsed("http", "169.254.169.254", V4(169, 254, 169, 254)))
    @@ ("http://169.255.0.0/" :> Parsed("http", "169.255.0.0", V4(169, 255, 0, 0)))
    @@ ("http://8.8.8.8/" :> Parsed("http", "8.8.8.8", V4(8, 8, 8, 8)))
    @@ ("http://0.0.0.0/" :> Parsed("http", "0.0.0.0", V4(0, 0, 0, 0)))
    @@ ("http://[fe7f::1]/" :> Parsed("http", "fe7f::1", V6(<<65151, 0, 0, 0, 0, 0, 0, 1>>)))
    @@ ("http://[fe80::1]/" :> Parsed("http", "fe80::1", V6(<<65152, 0, 0, 0, 0, 0, 0, 1>>)))
    @@ ("http://[febf::1]/" :> Parsed("http", "febf::1", V6(<<65215, 0, 0, 0, 0, 0, 0, 1>>)))
    @@ ("http://[fec0::1]/" :> Parsed("http", "fec0::1", V6(<<65216, 0, 0, 0, 0, 0, 0, 1>>)))
    @@ ("http://[fbff::1]/" :> Parsed("http", "fbff::1", V6(<<64511, 0, 0, 0, 0, 0, 0, 1>>)))
    @@ ("http://[fc00::1]/" :> Parsed("http", "fc00::1", V6(<<64512, 0, 0, 0, 0, 0, 0, 1>>)))
    @@ ("http://[fdff::1]/" :> Parsed("http", "fdff::1", V6(<<65023, 0, 0, 0, 0, 0, 0, 1>>)))
    @@ ("http://[fe00::1]/" :> Parsed("http", "fe00::1", V6(<<65024, 0, 0, 0, 0, 0, 0, 1>>)))
    @@ ("http://[2001:db8::1]/" :> Parsed("http", "2001:db8::1", V6(<<8193, 3512, 0, 0, 0, 0, 0, 1>>)))
    @@ ("http://[::ffff:10.0.0.1]/" :> Parsed("http", "::ffff:10.0.0.1", V4(10, 0, 0, 1)))
    @@ ("http://[::ffff:8.8.8.8]/" :> Parsed("http", "::ffff:8.8.8.8", V4(8, 8, 8, 8)))

URLCatalogue == DOMAIN URLTable

\* url.Parse(urlStr), parsedURL.Scheme, parsedURL.Hostname(), net.ParseIP(host)
ParseURL(u) == URLTable[u]

\* IP.To4: the four bytes of an IPv4 or IPv4-in-IPv6 address, else nil (<<>>)
To4(ip) ==
    IF /\ Len(ip) = 16
       /\ \A i \in 1..10 : ip[i] = 0
       /\ ip[11] = 255
       /\ ip[12] = 255
    THEN <<ip[13], ip[14], ip[15], ip[16]>>
    ELSE <<>>

\* privateBlocks, as net.ParseCIDR gives them: the network bytes and the prefix length
PrivateBlocks ==
    << [net |-> <<127, 0, 0, 0>>, ones |-> 8],
       [net |-> <<10, 0, 0, 0>>, ones |-> 8],
       [net |-> <<172, 16, 0, 0>>, ones |-> 12],
       [net |-> <<192, 168, 0, 0>>, ones |-> 16],
       [net |-> <<169, 254, 0, 0>>, ones |-> 16],
       [net |-> <<0, 0, 0, 0, 0, 0, 0, 0, 0, 0, 0, 0, 0, 0, 0, 1>>, ones |-> 128],
       [net |-> <<254, 128, 0, 0, 0, 0, 0, 0, 0, 0, 0, 0, 0, 0, 0, 0>>, ones |-> 10],
       [net |-> <<252, 0, 0, 0, 0, 0, 0, 0, 0, 0, 0, 0, 0, 0, 0, 0>>, ones |-> 7] >>

\* how many leading bits of byte i (1-based) a mask of `ones` bits covers
MaskBits(i, ones) ==
    IF ones >= 8 * i THEN 8
    ELSE IF ones <= 8 * (i - 1) THEN 0
    ELSE ones - 8 * (i - 1)

Pow2(k) == IF k = 0 THEN 1 ELSE IF k = 1 THEN 2 ELSE IF k = 2 THEN 4
           ELSE IF k = 3 THEN 8 ELSE IF k = 4 THEN 16 ELSE IF k = 5 THEN 32
           ELSE IF k = 6 THEN 64 ELSE IF k = 7 THEN 128 ELSE 256

\* byte & mask, for a mask of k leading one bits
AndMask(byte, k) == (byte \div Pow2(8 - k)) * Pow2(8 - k)

\* mutant: only whole bytes of the prefix are compared
CIDRContainsWholeBytes(block, ip) ==
    LET x == IF To4(ip) # <<>> THEN To4(ip) ELSE ip
    IN /\ Len(x) = Len(block.net)
       /\ \A i \in 1..Len(x) :
            MaskBits(i, block.ones) = 8 => block.net[i] = x[i]

\* (*IPNet).Contains
CIDRContains(block, ip) ==
    LET x == IF To4(ip) # <<>> THEN To4(ip) ELSE ip
    IN /\ Len(x) = Len(block.net)
       /\ \A i \in 1..Len(x) :
            AndMask(block.net[i], MaskBits(i, block.ones))
                = AndMask(x[i], MaskBits(i, block.ones))

\* isPrivateIP
isPrivateIP(ip) == \E k \in 1..Len(PrivateBlocks) : CIDRContains(PrivateBlocks[k], ip)

\* validateURL: "nil" or the error
validateURL(u) ==
    LET parsedURL == ParseURL(u)
    IN IF ~parsedURL.ok THEN "invalid URL format"
       ELSE IF parsedURL.scheme # "http" /\ parsedURL.scheme # "https"
            THEN "unsupported scheme"
       ELSE IF parsedURL.host \in {"localhost", "127.0.0.1", "::1"}
            THEN "access to localhost is not allowed"
       ELSE IF parsedURL.ip # NoIP /\ isPrivateIP(parsedURL.ip)
            THEN "access to private IP is not allowed"
       ELSE "nil"

(***************************************************************************)
(* SpecStore                                                               *)
(***************************************************************************)

ProcInit ==
    /\ pc = [p \in Procs |-> "idle"]
    /\ arg = [p \in Procs |-> NoArg]
    /\ ret = [p \in Procs |-> NoRet]
    /\ expect = [p \in Procs |-> None]

HistInit ==
    /\ lastStored = <<>>
    /\ stale = [q \in Paths |-> {}]

\* no request is being handled
HandlerIdle ==
    /\ body = <<>>
    /\ postIdx = 0
    /\ validURLs = <<>>
    /\ invalidURLs = <<>>
    /\ gUrls = <<>>
    /\ task = <<>>
    /\ semaphore = 0
    /\ wg = 0
    /\ resultChan = <<>>
    /\ chanClosed = FALSE
    /\ results = <<>>
    /\ response = NoResponse
    /\ served = <<>>
    /\ requested = <<>>
    /\ hpc = "idle"
    /\ ctxDone = FALSE
    /\ hpath = None
    /\ postResp = NoPostResp

InitStore ==
    /\ HandlerIdle
    /\ dbtype \in {"memory", "postgres"}
    /\ MemInit
    /\ PgInit
    /\ ProcInit
    /\ HistInit

NextStore ==
    \/ \E p \in Procs, path \in Paths, list \in URLLists : MemStoreLock(p, path, list)
    \/ \E p \in Procs : MemStoreAssignID(p)
    \/ \E p \in Procs : MemStoreWrite(p)
    \/ \E p \in Procs : MemStoreUnlock(p)
    \/ \E p \in Procs, path \in Paths : MemGetRLock(p, path)
    \/ \E p \in Procs : MemGetRead(p)
    \/ \E p \in Procs : MemGetRUnlock(p)
    \/ \E p \in Procs, path \in Paths, list \in URLLists : PgStoreCall(p, path, list)
    \/ \E p \in Procs, path \in Paths : PgGetCall(p, path)
    \/ \E p \in Procs : PgAttemptBegin(p)
    \/ \E p \in Procs : PgStoreAttemptOK(p)
    \/ \E p \in Procs : PgGetAttemptOK(p)
    \/ \E p \in Procs : PgReturn(p)
    \/ CBIntervalElapsed

\* both providers, called by NProcs goroutines, the backend of the durable one
\* healthy
SpecStore == InitStore /\ [][NextStore]_vars

InitPg ==
    /\ HandlerIdle
    /\ dbtype = "postgres"
    /\ MemInit
    /\ PgInit
    /\ ProcInit
    /\ HistInit

\* the StoreURLsForPath calls of the runs against a failing backend: one
\* path, the empty list (commit right after the upsert) and one list of two URLs
FaultPaths == {"a"}
FaultLists == {<<>>, <<"https://example.com", "https://httpbin.org/json">>}

NextPg ==
    \/ \E p \in Procs, path \in FaultPaths, list \in FaultLists :
          storeCalls < MaxFaultStores /\ PgStoreCall(p, path, list)
    \/ \E p \in Procs, path \in Paths : PgGetCall(p, path)
    \/ \E p \in Procs : PgAttemptRejected(p)
    \/ \E p \in Procs : PgAttemptBegin(p)
    \/ \E p \in Procs, list \in FaultLists : \E step \in TxSteps(list) : PgStoreAttemptFail(p, step)
    \/ \E p \in Procs : PgGetAttemptFail(p)
    \/ \E p \in Procs, k \in 0..MaxLen * MaxFaultStores : PgGetAttemptCut(p, k)
    \/ \E p \in Procs : PgStoreAttemptOK(p)
    \/ \E p \in Procs : PgGetAttemptOK(p)
    \/ \E p \in Procs : PgReturn(p)
    \/ CBCooldownElapsed
    \/ CBIntervalElapsed
    \/ BackendDown
    \/ BackendUp

\* the PostgresProvider alone, called by NProcs goroutines, its backend failing
\* and recovering at any time
SpecPg == InitPg /\ [][NextPg]_vars

InitMem ==
    /\ HandlerIdle
    /\ dbtype = "memory"
    /\ MemInit
    /\ PgInit
    /\ ProcInit
    /\ HistInit

NextMem ==
    \/ \E p \in Procs, path \in Paths, list \in URLLists : MemStoreLock(p, path, list)
    \/ \E p \in Procs : MemStoreAssignID(p)
    \/ \E p \in Procs : MemStoreWrite(p)
    \/ \E p \in Procs : MemStoreUnlock(p)
    \/ \E p \in Procs, path \in Paths : MemGetRLock(p, path)
    \/ \E p \in Procs : MemGetRead(p)
    \/ \E p \in Procs : MemGetRUnlock(p)

\* the InMemoryProvider alone, called by NProcs goroutines
SpecMem == InitMem /\ [][NextMem]_vars

(***************************************************************************)
(* Claims about the providers                                              *)
(***************************************************************************)

\* C1 (SpecMem). Idempotent replace: whenever GetURLsByPath(P) has built its
\* records, their URLs are exactly the list of the last StoreURLsForPath(P, .),
\* in its order and with its duplicates, and hold no URL that only the previous
\* list of P contributed.
C1_IdempotentReplace ==
    \A p \in Procs :
        (pc[p] = "get_read" /\ arg[p].path \in DOMAIN lastStored) =>
            /\ URLsOf(ret[p].recs) = lastStored[arg[p].path]
            /\ Range(URLsOf(ret[p].recs)) \cap stale[arg[p].path] = {}
            /\ ret[p].err = "nil"

\* a lookup of a path stored twice, whose last list repeats one URL and dropped
\* a URL of the list before
C1_Witness ==
    \E p \in Procs :
        /\ pc[p] = "get_read"
        /\ arg[p].path \in DOMAIN lastStored
        /\ stale[arg[p].path] # {}
        /\ Len(lastStored[arg[p].path]) = 2
        /\ lastStored[arg[p].path][1] = lastStored[arg[p].path][2]
        /\ Len(ret[p].recs) = 2

\* C2 (SpecMem). No partial write is visible: under every interleaving, what a
\* GetURLsByPath(P) returns is nothing when no Store on P had taken the write
\* lock before the lookup took its read lock, and otherwise exactly the list of
\* the last such Store: same length, same URLs, no mixture.
C2_NoPartialWrites ==
    \A p \in Procs :
        pc[p] = "get_read" =>
            IF expect[p] = None
            THEN ret[p].recs = <<>>
            ELSE /\ Len(ret[p].recs) = Len(expect[p])
                 /\ URLsOf(ret[p].recs) = expect[p]
                 /\ \A i \in 1..Len(ret[p].recs) :
                        ret[p].recs[i].PathID = paths[arg[p].path]

\* two lookups inside the read lock at once, one of them of a path whose list
\* has been replaced
C2_Witness ==
    \E p, q \in Procs :
        /\ p # q
        /\ pc[p] = "get_read"
        /\ pc[q] \in {"get_locked", "get_read"}
        /\ expect[p] # None
        /\ Len(expect[p]) = 2
        /\ stale[arg[p].path] # {}

\* C3 (SpecStore). Unknown path: a GetURLsByPath(P) for a path P on which no
\* StoreURLsForPath has succeeded returns an empty result and a nil error, from
\* the InMemoryProvider and, while the backend has never been down, from the
\* PostgresProvider.
C3_UnknownPathEmpty ==
    \A p \in Procs :
        /\ (pc[p] = "get_read" /\ arg[p].path \notin DOMAIN lastStored) =>
                (ret[p].recs = <<>> /\ ret[p].err = "nil")
        /\ (pc[p] = "pg_ret" /\ arg[p].op = "get" /\ ~everDown
                /\ arg[p].path \notin DOMAIN lastStored) =>
                (ret[p].recs = <<>> /\ ret[p].err = "nil")

\* the durable lookup of an unknown path has returned while another path holds URLs
C3_Witness ==
    \E p \in Procs :
        /\ pc[p] = "pg_ret"
        /\ arg[p].op = "get"
        /\ ~everDown
        /\ arg[p].path \notin DOMAIN lastStored
        /\ \E q \in DOMAIN lastStored : lastStored[q] # <<>>
        /\ dbUrls # <<>>

\* C31 (SpecMem). In-memory path identifiers: every stored path has one id,
\* at least 1 and below nextID; distinct paths have distinct ids; a new path
\* takes the value of nextID, which then grows by one and never shrinks; a
\* path keeps its id and is never removed.
C31_PathIdentifiers ==
    /\ [](/\ \A q \in DOMAIN paths : paths[q] >= 1 /\ paths[q] < nextID
          /\ \A q, r \in DOMAIN paths : q # r => paths[q] # paths[r]
          /\ nextID = Cardinality(DOMAIN paths) + 1)
    /\ [][/\ nextID' >= nextID
          /\ \A q \in DOMAIN paths : q \in DOMAIN paths' /\ paths'[q] = paths[q]
          /\ \A q \in DOMAIN paths' \ DOMAIN paths :
                paths'[q] = nextID /\ nextID' = nextID + 1]_vars

\* both paths have ids and a later Store of one of them has found its id again
C31_Witness ==
    /\ Cardinality(DOMAIN paths) = 2
    /\ nextID = 3
    /\ \E p \in Procs :
          /\ pc[p] = "st_id"
          /\ arg[p].id \in DOMAIN urls
          /\ arg[p].id = paths[arg[p].path]

\* the path of the call in which p takes the step
StepPath(p) == IF arg[p].path # None THEN arg[p].path ELSE arg'[p].path

\* C38 (SpecMem). Cross-path isolation: a step of a StoreURLsForPath(P, .) or
\* GetURLsByPath(P) call leaves, for every other path Q, Q's id and the
\* records GetURLsByPath(Q) returns as they were; a step of GetURLsByPath
\* changes neither paths, urls nor nextID.
C38_CrossPathIsolation ==
    [][\A p \in Procs :
          pc'[p] # pc[p] =>
              /\ \A q \in Paths \ {StepPath(p)} :
                    /\ (q \in DOMAIN paths) <=> (q \in DOMAIN paths')
                    /\ q \in DOMAIN paths => paths'[q] = paths[q]
                    /\ GetURLsByPath(q)' = GetURLsByPath(q)
              /\ (pc[p] \in {"get_locked", "get_read"} \/ pc'[p] = "get_locked") =>
                    (paths' = paths /\ urls' = urls /\ nextID' = nextID)]_vars

\* a Store of one path has written its list while the other path holds a
\* different, non-empty list
C38_Witness ==
    \E p \in Procs, q \in DOMAIN paths :
        /\ pc[p] = "st_written"
        /\ q # arg[p].path
        /\ MapUrls(paths[q]) # <<>>
        /\ MapUrls(paths[q]) # arg[p].urls
        /\ arg[p].urls # <<>>

(***************************************************************************)
(* Claims about the circuit breaker, the retries and the transaction       *)
(***************************************************************************)

\* C12 as stated (SpecPg): once 4 backend attempts have failed in a row, the
\* breaker is no longer Closed.
C12_OpenAfterFourFailures ==
    cbHist.failRun >= TripThreshold + 1 => cb.state # "closed"

\* the step is a rejection of an attempt of p by the open breaker
RejectedWhileOpen(p) ==
    /\ cb.state = "open"
    /\ admitted[p] = "no"
    /\ attempts'[p] = attempts[p] + 1

\* C12 as amended (SpecPg). The Closed breaker never holds more than 3 counted
\* failures; it opens exactly when a 4th attempt of the same counting period
\* (no success, no expiry of the Interval and no change of state since the
\* first) fails; no attempt is let through to the backend while it is Open;
\* an attempt made while it is Open leaves the tables alone and returns the
\* breaker's error; and the breaker leaves Open only when the cooldown elapses.
C12_OpenAfterFourCounted ==
    /\ [](cb.state = "closed" => cb.consecFail <= TripThreshold)
    /\ [](~cbHist.openExec)
    /\ [][/\ (cb.state = "closed" /\ cb'.state = "open") =>
                (cb.consecFail = TripThreshold /\ cbHist'.failRun >= 1)
          /\ \A p \in Procs :
                (/\ cb.state = "closed" /\ cb.consecFail = TripThreshold
                 /\ admitted[p] = "gen" /\ admitted'[p] = "no"
                 /\ cbHist'.failRun >= 1) => cb'.state = "open"
          /\ \A p \in Procs : RejectedWhileOpen(p) =>
                /\ dbPaths' = dbPaths /\ dbUrls' = dbUrls
                /\ admitted'[p] = "no"
                /\ pc'[p] = "pg_ret" => ret'[p].err = "circuit breaker is open"
          /\ (cb.state = "open" /\ cb'.state # "open") => CBCooldownElapsed]_vars

\* the breaker is open after 4 failures in a row and a call that it rejected
\* three times has returned its error
C12_Witness ==
    /\ cb.state = "open"
    /\ cbHist.failRun = TripThreshold + 1
    /\ \E p \in Procs :
          /\ pc[p] = "pg_ret"
          /\ attempts[p] = RetryAttempts
          /\ ret[p].err = "circuit breaker is open"

\* the step ends an attempt of p that the breaker counts, with a failure or
\* with a success
CountedFailure(p) == admitted[p] = "gen" /\ admitted'[p] = "no" /\ cbHist'.failRun >= 1
CountedSuccess(p) == admitted[p] = "gen" /\ admitted'[p] = "no" /\ cbHist'.failRun = 0

\* C36 (SpecPg). One breaker for reads and writes: every attempt of
\* StoreURLsForPath and of GetURLsByPath is let through or refused by the same
\* breaker state and a counted failure of either adds to the same count, on
\* top of the failures of the other; the failure counted on top of 3 opens
\* the breaker whichever operation it belongs to, and the Open breaker
\* refuses the attempts of both, none reaching the backend.
C36_OneBreaker ==
    /\ [](/\ ~cbHist.openExec
          /\ cb.state = "closed" => (cb.consecFail = 0 <=> cbHist.ops = {})
          /\ cb.state = "open" =>
                \A p \in Procs :
                    /\ admitted[p] # "gen"
                    /\ (pc[p] \in {"pg_store", "pg_get"} /\ admitted[p] = "no") =>
                          (ENABLED PgAttemptRejected(p) /\ ~ENABLED PgAttemptBegin(p)))
    /\ [][\A p \in Procs :
            /\ (CountedFailure(p) /\ cb.state = "closed") =>
                  /\ cbHist'.ops = cbHist.ops \cup {arg[p].op}
                  /\ IF cb.consecFail < TripThreshold
                     THEN cb'.state = "closed" /\ cb'.consecFail = cb.consecFail + 1
                     ELSE cb'.state = "open"
            /\ RejectedWhileOpen(p) =>
                  /\ arg[p].op \in {"store", "get"}
                  /\ dbPaths' = dbPaths /\ dbUrls' = dbUrls /\ cb' = cb
                  /\ pc'[p] = "pg_ret" => ret'[p].err = "circuit breaker is open"]_vars

\* failed attempts of a GetURLsByPath and of a StoreURLsForPath have together
\* opened the breaker, which has since refused an attempt of each
C36_Witness ==
    /\ cb.state = "open"
    /\ cbHist.ops = {"get", "store"}
    /\ \E p, q \in Procs :
          /\ arg[p].op = "get" /\ pc[p] = "pg_ret"
          /\ ret[p].err = "circuit breaker is open"
          /\ arg[q].op = "store" /\ pc[q] = "pg_ret"
          /\ ret[q].err = "circuit breaker is open"

BreakerTransitions ==
    {<<"closed", "open">>, <<"open", "half-open">>,
     <<"half-open", "closed">>, <<"half-open", "open">>}

\* C13 (SpecPg). The Half-Open breaker lets at most 5 attempts through; the
\* 5th success of its probes closes it with every count at zero, a failed
\* probe opens it again; the Open breaker becomes Half-Open only by the
\* cooldown; and the breaker's state changes only along Closed -> Open,
\* Open -> Half-Open, Half-Open -> Closed and Half-Open -> Open.
C13_HalfOpenProbes ==
    /\ [](cbHist.probes <= MaxRequests)
    /\ [][/\ cb.state # cb'.state => <<cb.state, cb'.state>> \in BreakerTransitions
          /\ (cb.state = "open" /\ cb'.state = "half-open") =>
                (CBCooldownElapsed /\ cbHist'.probes = 0)
          /\ (cb.state = "half-open" /\ cb'.state = "closed") =>
                (cb' = CBClosed /\ cb.consecSucc = MaxRequests - 1
                 /\ \E p \in Procs : CountedSuccess(p))
          /\ (cb.state = "half-open" /\ cb'.state = "open") =>
                \E p \in Procs : CountedFailure(p)
          /\ \A p \in Procs :
                /\ (cb.state = "half-open" /\ CountedFailure(p)) => cb'.state = "open"
                /\ (cb.state = "half-open" /\ CountedSuccess(p)
                        /\ cb.consecSucc = MaxRequests - 1) => cb'.state = "closed"]_vars

\* the Half-Open breaker has let 5 probes through, one of them is still
\* running, and a call whose attempts it then refused has returned
C13_Witness ==
    /\ cb.state = "half-open"
    /\ cbHist.probes = MaxRequests
    /\ \E p, q \in Procs :
          /\ admitted[q] = "gen"
          /\ pc[p] = "pg_ret"
          /\ ret[p].err = "too many requests"

\* the step ends an attempt of p at the backend, with an error or without
AttemptFailed(p) == admitted[p] # "no" /\ admitted'[p] = "no" /\ cbHist'.failRun >= 1
AttemptSucceeded(p) == admitted[p] # "no" /\ admitted'[p] = "no" /\ cbHist'.failRun = 0

\* the step is an attempt of p that the breaker refused
AttemptRejected(p) == admitted[p] = "no" /\ attempts'[p] = attempts[p] + 1

\* C27 as stated (SpecPg). Breaker accounting: an attempt that reached the
\* backend raises the consecutive-failure counter by one when it fails and
\* sets it to zero when it succeeds; a rejected attempt leaves it alone; and
\* every attempt of a failed Store call is such a failure, so that 3 attempts
\* make 3 failures.
C27_BreakerAccounting ==
    [][\A p \in Procs :
          /\ AttemptFailed(p) => cb'.consecFail = cb.consecFail + 1
          /\ AttemptSucceeded(p) => cb'.consecFail = 0
          /\ AttemptRejected(p) => cb'.consecFail = cb.consecFail
          /\ (arg[p].op = "store" /\ attempts'[p] = attempts[p] + 1
                  /\ ~AttemptSucceeded(p)) => AttemptFailed(p)]_vars

\* C27 as amended (SpecPg). The counter changes at most once per attempt: a
\* failure the breaker counts raises it by one, unless it opens the breaker
\* (the 4th in a row while Closed, any while Half-Open), which clears it; a
\* counted success sets it to zero; an attempt let through in a counting
\* period that has ended and a rejected attempt leave the breaker as it was;
\* so each attempt of a call adds at most one failure.
C27_CountedAccounting ==
    [][\A p \in Procs :
          /\ CountedFailure(p) =>
                IF cb.state = "closed" /\ cb.consecFail < TripThreshold
                THEN cb'.state = "closed" /\ cb'.consecFail = cb.consecFail + 1
                ELSE cb'.state = "open" /\ cb'.consecFail = 0
          /\ CountedSuccess(p) => cb'.consecFail = 0
          /\ (admitted[p] = "old" /\ admitted'[p] = "no") => cb' = cb
          /\ AttemptRejected(p) => cb' = cb
          /\ attempts'[p] = attempts[p] + 1 => cb'.consecFail <= cb.consecFail + 1]_vars

\* a Store call has failed after 3 attempts and the Closed breaker holds its
\* 3 failures
C27_Witness ==
    \E p \in Procs :
        /\ pc[p] = "pg_ret"
        /\ arg[p].op = "store"
        /\ attempts[p] = RetryAttempts
        /\ ret[p].err \notin {"nil", "circuit breaker is open", "too many requests"}
        /\ cb.state = "closed"
        /\ cb.consecFail = TripThreshold

\* the step lowers the failure count of a breaker that stays Closed
CountCleared ==
    cb.state = "closed" /\ cb'.state = "closed" /\ cb'.consecFail < cb.consecFail

\* C28 as stated (SpecPg). While the breaker is Closed only a successful
\* attempt lowers its count of consecutive failures, so the breaker is not
\* Closed once 4 backend attempts have failed in a row with no success in
\* between.
C28_ResetOnlyBySuccess ==
    /\ [][CountCleared => \E p \in Procs : AttemptSucceeded(p)]_vars
    /\ [](cbHist.failRun = TripThreshold + 1 => cb.state # "closed")

\* C28 as amended (SpecPg). While the breaker is Closed its count is lowered
\* only by a success that it counts or by the expiry of the Interval, and the
\* failure counted on top of 3 opens it.
C28_ResetBySuccessOrInterval ==
    [][/\ CountCleared => (CBIntervalElapsed \/ \E p \in Procs : CountedSuccess(p))
       /\ \A p \in Procs :
             (cb.state = "closed" /\ cb.consecFail = TripThreshold /\ CountedFailure(p))
                 => cb'.state = "open"]_vars

\* 4 backend attempts have failed in a row and the breaker, whose count the
\* Interval cleared meanwhile, is still Closed
C28_Witness ==
    /\ cb.state = "closed"
    /\ cbHist.failRun = TripThreshold + 1
    /\ cb.consecFail >= 1
    /\ \A q \in Procs : admitted[q] = "no"

\* C14 (SpecPg). A call makes at most 3 attempts; an attempt starts only when
\* the call has none running; no attempt starts after one returned a nil
\* error; the call returns a nil error exactly when one of its attempts
\* did, and an error only after its 3rd attempt.
C14_RetryPolicy ==
    /\ [](\A p \in Procs :
            /\ attempts[p] <= RetryAttempts
            /\ callHist[p].succ <= 1
            /\ callHist[p].late = 0
            /\ admitted[p] # "no" => (pc[p] \in {"pg_store", "pg_get"}
                                      /\ attempts[p] < RetryAttempts)
            /\ pc[p] = "pg_ret" =>
                  /\ ret[p].err = "nil" <=> callHist[p].succ = 1
                  /\ ret[p].err # "nil" => attempts[p] = RetryAttempts)
    /\ [][\A p \in Procs :
            /\ attempts'[p] = attempts[p] + 1 =>
                  (admitted'[p] = "no" /\ (admitted[p] = "no" => CBBefore(cb) # "nil"))
            /\ (admitted[p] # "gen" /\ admitted'[p] = "gen") => admitted[p] = "no"]_vars

\* a call has returned a nil error from its 3rd attempt
C14_Witness ==
    \E p \in Procs :
        /\ pc[p] = "pg_ret"
        /\ attempts[p] = RetryAttempts
        /\ ret[p].err = "nil"

\* the step ends an attempt of the StoreURLsForPath call of p with an error
StoreAttemptFailed(p) ==
    /\ pc[p] = "pg_store"
    /\ admitted[p] # "no"
    /\ admitted'[p] = "no"
    /\ callHist'[p].succ = callHist[p].succ

\* C16 (SpecPg). An attempt of StoreURLsForPath that fails leaves the paths and
\* urls tables as they were, and the records a GetURLsByPath(P) returns with a
\* nil error are the lists committed for P up to the end of one of them, never
\* up to the middle of a list.
C16_TransactionalWrite ==
    /\ [][\A p \in Procs : StoreAttemptFailed(p) =>
                (dbPaths' = dbPaths /\ dbUrls' = dbUrls)]_vars
    /\ [](\A p \in Procs :
            (pc[p] = "pg_ret" /\ arg[p].op = "get" /\ ret[p].err = "nil") =>
                /\ Len(ret[p].recs) \in pgCuts[arg[p].path]
                /\ URLsOf(ret[p].recs) =
                      SubSeq(pgLog[arg[p].path], 1, Len(ret[p].recs)))

\* the write half of C16 alone
C16_FailedAttemptWritesNothing ==
    [][\A p \in Procs : StoreAttemptFailed(p) =>
            (dbPaths' = dbPaths /\ dbUrls' = dbUrls)]_vars

C17_DurableReplace ==
    \A p \in Procs :
        (pc[p] = "pg_ret" /\ arg[p].op = "get" /\ ~everDown
            /\ ret[p].err = "nil" /\ expect[p] # None) =>
                /\ Len(ret[p].recs) = Len(expect[p])
                /\ URLsOf(ret[p].recs) = expect[p]

\* a GetURLsByPath of the PostgresProvider has returned a nil error to p
PgGot(p) == pc[p] = "pg_ret" /\ arg[p].op = "get" /\ ret[p].err = "nil"

\* C24 (SpecStore). Durable read ordering: GetURLsByPath returns the path's
\* records in ascending id; after a committed StoreURLsForPath(P, L) the i-th
\* returned URL is L[i]; and two Lookups of P that read the same rows (no
\* Store on P committed in between) return the same sequence.
C24_DurableReadOrdering ==
    \A p \in Procs :
        PgGot(p) =>
            LET recs == ret[p].recs
            IN /\ \A i \in 1..(Len(recs) - 1) : recs[i].ID < recs[i + 1].ID
               /\ expect[p] # None =>
                     \A i \in 1..Len(expect[p]) :
                         i <= Len(recs) /\ recs[i].URL = expect[p][i]
               /\ \A q \in Procs :
                     (PgGot(q) /\ arg[q].path = arg[p].path
                         /\ callHist[q].rows = callHist[p].rows) =>
                             ret[q].recs = recs

(***************************************************************************)
(* postgres.PostgresProvider (GORM), the provider CreateProvider returns    *)
(* for dbtype "postgres"                                                   *)
(***************************************************************************)

\* the next value of the urls id sequence
GormNextID ==
    LET RECURSIVE Total(_)
        Total(S) == IF S = {} THEN 0
                    ELSE LET q == CHOOSE x \in S : TRUE
                         IN Len(pgLog[q]) + Total(S \ {q})
    IN Total(DOMAIN pgLog) + 1

\* the tables after the three statements of the transaction: FirstOrCreate of
\* the path, Delete of the path's URLs, Create of the new ones
GormTx(path, list) ==
    LET ps == PgUpsertPath(path)
        kept == SelectSeq(dbUrls, LAMBDA r : r.path_id # ps[path])
    IN [paths |-> ps,
        urls |-> kept \o [i \in 1..Len(list) |->
                            [id |-> GormNextID + i - 1, path_id |-> ps[path],
                             url |-> list[i]]]]

\* the orders in which a query without ORDER BY may deliver the rows
Orders(rows) ==
    {s \in [1..Len(rows) -> Range(rows)] : Range(s) = Range(rows)}

\* the history of backend failures in a row after one more access
GormHist(success) ==
    [cbHist EXCEPT !.failRun = IF success THEN 0 ELSE Min(@ + 1, TripThreshold + 1)]

gormFrame == <<notPgVars, cb, admitted, everDown, pgCuts, stale>>

\* StoreURLsForPath is called
GormStoreCall(p, path, list) ==
    /\ dbtype = "gorm"
    /\ pc[p] = "idle"
    /\ storeCalls < MaxStores
    /\ storeCalls' = storeCalls + 1
    /\ pc' = [pc EXCEPT ![p] = "gorm_store"]
    /\ arg' = [arg EXCEPT ![p] = [op |-> "store", path |-> path, urls |-> list, id |-> 0]]
    /\ UNCHANGED <<gormFrame, dbPaths, dbUrls, dbUp, attempts, cbHist, callHist, pgLog,
                   ret, expect, lastStored>>

\* the transaction commits
GormStoreCommit(p) ==
    /\ pc[p] = "gorm_store"
    /\ dbUp
    /\ arg[p].urls # <<>>
    /\ LET t == GormTx(arg[p].path, arg[p].urls)
       IN dbPaths' = t.paths /\ dbUrls' = t.urls
    /\ pgLog' = [pgLog EXCEPT ![arg[p].path] = @ \o arg[p].urls]
    /\ lastStored' = (arg[p].path :> arg[p].urls) @@ lastStored
    /\ attempts' = [attempts EXCEPT ![p] = @ + 1]
    /\ cbHist' = GormHist(TRUE)
    /\ callHist' = [callHist EXCEPT ![p].succ = 1]
    /\ pc' = [pc EXCEPT ![p] = "gorm_ret"]
    /\ ret' = [ret EXCEPT ![p] = [recs |-> <<>>, isNil |-> TRUE, err |-> "nil"]]
    /\ UNCHANGED <<gormFrame, dbUp, storeCalls, arg, expect>>

\* tx.Create of an empty slice returns gorm.ErrEmptySlice: the transaction is
\* rolled back
GormStoreEmpty(p) ==
    /\ pc[p] = "gorm_store"
    /\ dbUp
    /\ arg[p].urls = <<>>
    /\ attempts' = [attempts EXCEPT ![p] = @ + 1]
    /\ callHist' = [callHist EXCEPT ![p].succ = 1]
    /\ pc' = [pc EXCEPT ![p] = "gorm_ret"]
    /\ ret' = [ret EXCEPT ![p] = ErrRet("empty slice found")]
    /\ UNCHANGED <<gormFrame, dbPaths, dbUrls, dbUp, storeCalls, cbHist, pgLog, arg,
                   expect, lastStored>>

\* a statement of the transaction fails: it is rolled back and
\* StoreURLsForPath returns the error
GormStoreFail(p) ==
    /\ pc[p] = "gorm_store"
    /\ ~dbUp
    /\ attempts' = [attempts EXCEPT ![p] = @ + 1]
    /\ cbHist' = GormHist(FALSE)
    /\ pc' = [pc EXCEPT ![p] = "gorm_ret"]
    /\ ret' = [ret EXCEPT ![p] = ErrRet("storage error")]
    /\ UNCHANGED <<gormFrame, dbPaths, dbUrls, dbUp, storeCalls, callHist, pgLog, arg,
                   expect, lastStored>>

\* GetURLsByPath is called
GormGetCall(p, path) ==
    /\ dbtype = "gorm"
    /\ pc[p] = "idle"
    /\ pc' = [pc EXCEPT ![p] = "gorm_first"]
    /\ arg' = [arg EXCEPT ![p] = [op |-> "get", path |-> path, urls |-> <<>>, id |-> 0]]
    /\ UNCHANGED <<gormFrame, dbPaths, dbUrls, dbUp, attempts, storeCalls, cbHist,
                   callHist, pgLog, ret, expect, lastStored>>

\* First(&pth) finds the path
GormFirstFound(p) ==
    /\ pc[p] = "gorm_first"
    /\ dbUp
    /\ arg[p].path \in DOMAIN dbPaths
    /\ arg' = [arg EXCEPT ![p].id = dbPaths[arg[p].path]]
    /\ attempts' = [attempts EXCEPT ![p] = @ + 1]
    /\ cbHist' = GormHist(TRUE)
    /\ expect' = [expect EXCEPT ![p] = lastStored[arg[p].path]]
    /\ pc' = [pc EXCEPT ![p] = "gorm_find"]
    /\ UNCHANGED <<gormFrame, dbPaths, dbUrls, dbUp, storeCalls, callHist, pgLog, ret,
                   lastStored>>

\* First(&pth) returns an error, gorm.ErrRecordNotFound when the backend
\* answers and has no such path, the backend's error when it fails:
\* `return nil, nil // Not found is not an error` in both cases
GormFirstErr(p) ==
    /\ pc[p] = "gorm_first"
    /\ ~dbUp \/ arg[p].path \notin DOMAIN dbPaths
    /\ attempts' = [attempts EXCEPT ![p] = @ + 1]
    /\ cbHist' = GormHist(dbUp)
    /\ callHist' = [callHist EXCEPT ![p].succ = IF dbUp THEN 1 ELSE 0]
    /\ expect' = [expect EXCEPT ![p] = IF arg[p].path \in DOMAIN lastStored
                                        THEN lastStored[arg[p].path] ELSE None]
    /\ pc' = [pc EXCEPT ![p] = "gorm_ret"]
    /\ ret' = [ret EXCEPT ![p] = [recs |-> <<>>, isNil |-> TRUE, err |-> "nil"]]
    /\ UNCHANGED <<gormFrame, dbPaths, dbUrls, dbUp, storeCalls, pgLog, arg, lastStored>>

\* Find(&urls) delivers the rows of the path id, which are converted
GormFindOK(p) ==
    /\ pc[p] = "gorm_find"
    /\ dbUp
    /\ \E rows \in Orders(SelectSeq(dbUrls, LAMBDA r : r.path_id = arg[p].id)) :
          ret' = [ret EXCEPT ![p] =
                    [recs |-> [i \in 1..Len(rows) |->
                                 [ID |-> rows[i].id, PathID |-> rows[i].path_id,
                                  URL |-> rows[i].url]],
                     isNil |-> FALSE, err |-> "nil"]]
    /\ cbHist' = GormHist(TRUE)
    /\ callHist' = [callHist EXCEPT ![p].succ = 1]
    /\ pc' = [pc EXCEPT ![p] = "gorm_ret"]
    /\ UNCHANGED <<gormFrame, dbPaths, dbUrls, dbUp, attempts, storeCalls, pgLog, arg,
                   expect, lastStored>>

\* Find(&urls) fails: `return nil, err`
GormFindErr(p) ==
    /\ pc[p] = "gorm_find"
    /\ ~dbUp
    /\ cbHist' = GormHist(FALSE)
    /\ pc' = [pc EXCEPT ![p] = "gorm_ret"]
    /\ ret' = [ret EXCEPT ![p] = ErrRet("storage error")]
    /\ UNCHANGED <<gormFrame, dbPaths, dbUrls, dbUp, attempts, storeCalls, callHist,
                   pgLog, arg, expect, lastStored>>

\* the call returns to its caller
GormReturn(p) ==
    /\ pc[p] = "gorm_ret"
    /\ pc' = [pc EXCEPT ![p] = "idle"]
    /\ arg' = [arg EXCEPT ![p] = NoArg]
    /\ ret' = [ret EXCEPT ![p] = NoRet]
    /\ attempts' = [attempts EXCEPT ![p] = 0]
    /\ callHist' = [callHist EXCEPT ![p] = CallHistInit]
    /\ expect' = [expect EXCEPT ![p] = None]
    /\ UNCHANGED <<gormFrame, dbPaths, dbUrls, dbUp, storeCalls, cbHist, pgLog, lastStored>>

\* NewPostgresProvider of package postgres, after AutoMigrate
InitGorm ==
    /\ dbtype = "gorm"
    /\ MemInit
    /\ PgInit
    /\ ProcInit
    /\ HistInit
    /\ HandlerIdle

NextGorm ==
    \/ \E p \in Procs, path \in Paths, list \in URLLists : GormStoreCall(p, path, list)
    \/ \E p \in Procs : GormStoreCommit(p)
    \/ \E p \in Procs : GormStoreEmpty(p)
    \/ \E p \in Procs : GormStoreFail(p)
    \/ \E p \in Procs, path \in Paths : GormGetCall(p, path)
    \/ \E p \in Procs : GormFirstFound(p)
    \/ \E p \in Procs : GormFirstErr(p)
    \/ \E p \in Procs : GormFindOK(p)
    \/ \E p \in Procs : GormFindErr(p)
    \/ \E p \in Procs : GormReturn(p)
    \/ BackendDown
    \/ BackendUp

\* the GORM provider called concurrently, the backend going down and up
SpecGorm == InitGorm /\ [][NextGorm]_vars

\* C29 (SpecGorm). The provider of the factory wraps its backend accesses in
\* the retry policy and the breaker: a call returns the backend's error only
\* after 3 attempts, the breaker is no longer Closed once 4 backend accesses
\* have failed in a row, and no backend access is made while it is Open.
C29_FactoryProviderGuarded ==
    /\ [](\A p \in Procs :
            (pc[p] = "gorm_ret" /\ ret[p].err = "storage error") =>
                attempts[p] = RetryAttempts)
    /\ [](cbHist.failRun = TripThreshold + 1 => cb.state # "closed")
    /\ [][(\E p \in Procs : attempts'[p] = attempts[p] + 1) => cb.state # "open"]_vars

\* C30 (SpecGorm). GetURLsByPath returns an empty result with a nil error
\* only for a path that had never been stored when it was looked up, and a
\* non-nil error when the backend failed to answer the query for the path.
C30_LookupDistinguishes ==
    \A p \in Procs :
        (pc[p] = "gorm_ret" /\ arg[p].op = "get") =>
            /\ (ret[p].err = "nil" /\ ret[p].recs = <<>>) => expect[p] = None
            /\ callHist[p].succ = 0 => ret[p].err # "nil"

(***************************************************************************)
(* handlePostPath: the validation loop                                     *)
(***************************************************************************)

\* longest body.URLs of a POST request
MaxBody == 2

Bodies == SeqsUpTo(URLCatalogue, MaxBody) \ {<<>>}

\* one iteration of `for _, urlStr := range body.URLs`
PostValidateStep ==
    /\ postIdx < Len(body)
    /\ LET urlStr == body[postIdx + 1]
           err == validateURL(urlStr)
       IN IF err # "nil"
          THEN /\ invalidURLs' = Append(invalidURLs, [url |-> urlStr, err |-> err])
               /\ UNCHANGED validURLs
          ELSE /\ validURLs' = Append(validURLs, urlStr)
               /\ UNCHANGED invalidURLs
    /\ postIdx' = postIdx + 1
    /\ UNCHANGED <<storeVars, httpVars, body, getVars>>

\* a POST request whose body decoded to a non-empty list, before the loop
InitValidate ==
    /\ dbtype = "memory"
    /\ MemInit
    /\ PgInit
    /\ ProcInit
    /\ HistInit
    /\ body \in Bodies
    /\ postIdx = 0
    /\ validURLs = <<>>
    /\ invalidURLs = <<>>
    /\ gUrls = <<>>
    /\ task = <<>>
    /\ semaphore = 0
    /\ wg = 0
    /\ resultChan = <<>>
    /\ chanClosed = FALSE
    /\ results = <<>>
    /\ response = NoResponse
    /\ served = <<>>
    /\ requested = <<>>
    /\ hpc = "post_loop"
    /\ ctxDone = FALSE
    /\ hpath = "a"
    /\ postResp = NoPostResp

NextValidate == PostValidateStep

SpecValidate == InitValidate /\ [][NextValidate]_vars

(***************************************************************************)
(* Claims about validateURL                                                *)
(***************************************************************************)

\* the address ranges as the specification lists them, by octet and by group
InListedRange(ip) ==
    IF To4(ip) # <<>>
    THEN LET a == To4(ip)[1]
             b == To4(ip)[2]
         IN \/ a = 127
            \/ a = 10
            \/ a = 172 /\ b \in 16..31
            \/ a = 192 /\ b = 168
            \/ a = 169 /\ b = 254
    ELSE LET g1 == ip[1] * 256 + ip[2]
         IN \/ ip = V6(<<0, 0, 0, 0, 0, 0, 0, 1>>)
            \/ g1 \in 65152..65215
            \/ g1 \in 64512..65023

\* the right-hand side of the specification's "if and only if"
Permitted(u) ==
    LET parsedURL == ParseURL(u)
    IN /\ parsedURL.ok
       /\ parsedURL.scheme \in {"http", "https"}
       /\ parsedURL.host # "localhost"
       /\ ~(parsedURL.ip # NoIP /\ InListedRange(parsedURL.ip))

NamedRejected ==
    {"http://127.0.0.1/x", "http://localhost/x", "http://[::1]:8080/api",
     "http://192.168.1.1:8080/api", "ftp://x/y", "file:///etc/passwd",
     "data:text/plain;base64,SGVsbG8=", "not-a-url"}

maxConcurrent == 10
\* CheckRedirect: len(via) >= 10
redirectLimit == 10
\* io.LimitReader(resp.Body, 1<<20)
bodyLimit == 1048576


\* an error is kept as the parts of its message; nil is <<>>
NoError == <<>>
ErrContains(err, part) == \E k \in 1..Len(err) : err[k] = part

\* result["content"]: the first `bytes` bytes of the server's body, as they
\* are (enc "raw") or in base64, and the length of the resulting string
NoContent == [enc |-> "", bytes |-> 0, len |-> 0]

\* a map[string]interface{}: keys is the set of keys present
EmptyResult ==
    [keys |-> {}, url |-> "", error |-> NoError, warning |-> "",
     redirected |-> FALSE, original_url |-> "", final_url |-> "",
     content_type |-> "", status_code |-> 0, content |-> NoContent]

\* result := map[string]interface{}{"url": urlRec.URL}
NewResult(url) == [EmptyResult EXCEPT !.keys = {"url"}, !.url = url]

\* mutant: the error is not stored in the result
WithErrorDropped(result, err) == result

\* mutant: the error result also reports a status code
WithErrorAndStatus(result, err) ==
    [result EXCEPT !.keys = @ \cup {"error", "status_code"}, !.error = err]

\* result["error"] = err.Error()
WithError(result, err) ==
    [result EXCEPT !.keys = @ \cup {"error"}, !.error = err]

\* the Content-Type values of the model and the three tests made on them
CTypes ==
    {"text/html", "text/plain; charset=utf-8", "application/json",
     "application/xml", "image/svg+xml", "image/png", "application/octet-stream", ""}
HasTextPrefix(ct) == ct \in {"text/html", "text/plain; charset=utf-8"}
ContainsJSON(ct) == ct = "application/json"
ContainsXML(ct) == ct \in {"application/xml", "image/svg+xml"}

\* base64.StdEncoding.EncodedLen
Base64Len(n) == ((n + 2) \div 3) * 4

\* mutant: only the text/ prefix keeps the body as text
ContentOfPrefixOnly(ct, n) ==
    IF HasTextPrefix(ct)
    THEN [enc |-> "raw", bytes |-> n, len |-> n]
    ELSE [enc |-> "base64", bytes |-> n, len |-> ((n + 2) \div 3) * 4]

\* string(body) or base64.StdEncoding.EncodeToString(body)
ContentOf(ct, n) ==
    IF HasTextPrefix(ct) \/ ContainsJSON(ct) \/ ContainsXML(ct)
    THEN [enc |-> "raw", bytes |-> n, len |-> n]
    ELSE [enc |-> "base64", bytes |-> n, len |-> Base64Len(n)]

\* (*url.URL).String() of a request URL: the scheme comes out in lower case
URLString(u) == IF u = "HTTP://EXAMPLE.COM/" THEN "http://EXAMPLE.COM/" ELSE u

\* what the network does for one task: the first `hops` responses are
\* redirects to `location` (Endless: every response is), then the exchange
\* fails at `fail` or answers status, ctype and a body of bodyLen bytes
Endless == -1
Env(hops, location, fail, bodyLen, ctype, status) ==
    [hops |-> hops, location |-> location, fail |-> fail,
     bodyLen |-> bodyLen, ctype |-> ctype, status |-> status]
NoEnv == Env(0, "", "unused", 0, "", 0)

PublicLocation == "http://example.org:8080/a?b=c"
PrivateLocation == "http://169.254.169.254/latest"

BodyLens == {0, 5, bodyLimit - 1, bodyLimit, bodyLimit + 1, 2 * bodyLimit}

Envs ==
    {Env(0, "", "none", n, ct, 200) : n \in BodyLens, ct \in {"text/html", "image/png"}}
    \cup {Env(0, "", "none", 5, ct, 404) : ct \in CTypes}
    \cup {Env(h, loc, "none", 5, "text/html", 200) :
            h \in {1, redirectLimit - 1, redirectLimit, redirectLimit + 1, Endless},
            loc \in {PublicLocation, PrivateLocation}}
    \cup {Env(0, "", f, 5, "text/html", 200) : f \in {"network", "timeout", "read", "close"}}

\* the CheckRedirect closure
CheckRedirect(via) ==
    IF Len(via) >= redirectLimit THEN "too many redirects" ELSE "nil"

\* client.Do: reqs are the URLs requested so far, the last one just sent.
\* A redirect response asks CheckRedirect with via = reqs before the next
\* request is sent; its error ends the call.
RECURSIVE ClientSend(_, _)
ClientSend(env, reqs) ==
    IF env.hops = Endless \/ Len(reqs) <= env.hops
    THEN IF CheckRedirect(reqs) # "nil"
         THEN [err |-> <<"Get", env.location, CheckRedirect(reqs)>>,
               reqs |-> reqs, final |-> ""]
         ELSE ClientSend(env, Append(reqs, env.location))
    ELSE IF env.fail = "network"
         THEN [err |-> <<"Get", reqs[Len(reqs)], "connection refused">>,
               reqs |-> reqs, final |-> ""]
    ELSE IF env.fail = "timeout"
         THEN [err |-> <<"Get", reqs[Len(reqs)], "context deadline exceeded">>,
               reqs |-> reqs, final |-> ""]
    ELSE [err |-> NoError, reqs |-> reqs, final |-> URLString(reqs[Len(reqs)])]

ClientDo(url, env) == ClientSend(env, <<url>>)

\* mutant: the body is read without a limit
ReadAllUnlimited(bodyLen) == bodyLen

\* io.ReadAll(io.LimitReader(resp.Body, 1<<20)): how many bytes are read
ReadAllLimited(bodyLen) == Min(bodyLen, bodyLimit)

\* the result of a response whose body was read and closed without error
SuccessResult(url, env, final) ==
    LET n == ReadAllLimited(env.bodyLen)
        warned == IF n = bodyLimit
                  THEN [NewResult(url) EXCEPT
                          !.keys = @ \cup {"warning"},
                          !.warning = "Response truncated due to size limit (1MB)"]
                  ELSE NewResult(url)
        tracked == IF final # url
                   THEN [warned EXCEPT
                           !.keys = @ \cup {"original_url", "final_url", "redirected"},
                           !.original_url = url,
                           !.final_url = final,
                           !.redirected = TRUE]
                   ELSE [warned EXCEPT !.keys = @ \cup {"redirected"}]
    IN [tracked EXCEPT
          !.keys = @ \cup {"content_type", "status_code", "content"},
          !.content_type = env.ctype,
          !.status_code = env.status,
          !.content = ContentOf(env.ctype, n)]

\* the body of the goroutine between the semaphore send and the channel
\* send: the result it builds and the requests it sent
Fetch(url, env) ==
    IF validateURL(url) # "nil"
    THEN [result |-> WithError(NewResult(url), <<validateURL(url)>>), reqs |-> <<>>]
    ELSE IF ~ParseURL(url).ok       \* http.NewRequestWithContext
    THEN [result |-> WithError(NewResult(url), <<"parse", url>>), reqs |-> <<>>]
    ELSE LET do == ClientDo(url, env)
         IN IF do.err # NoError
            THEN [result |-> WithError(NewResult(url), do.err), reqs |-> do.reqs]
            ELSE IF env.fail = "read"
            THEN [result |-> WithError(NewResult(url), <<"unexpected EOF">>),
                  reqs |-> do.reqs]
            ELSE IF env.fail = "close"
            THEN [result |-> WithError(NewResult(url), <<"close failed">>),
                  reqs |-> do.reqs]
            ELSE [result |-> SuccessResult(url, env, do.final), reqs |-> do.reqs]

\* the goroutine when ctx, derived from the request's context, is cancelled
\* before its last network call has ended: client.Do is given up after it sent
\* k requests (none when ctx was cancelled before the call), or the read of
\* the body is (k beyond the requests the server would have answered)
FetchAborted(url, env, k) ==
    IF validateURL(url) # "nil" \/ ~ParseURL(url).ok
    THEN Fetch(url, env)
    ELSE LET do == ClientDo(url, env)
             n == Min(k, Len(do.reqs))
             sent == SubSeq(do.reqs, 1, n)
         IN IF k > Len(do.reqs) /\ do.err = NoError
            THEN [result |-> WithError(NewResult(url), <<"context canceled">>),
                  reqs |-> do.reqs]
            ELSE [result |-> WithError(NewResult(url),
                                       <<"Get", IF n = 0 THEN url ELSE sent[n],
                                         "context canceled">>),
                  reqs |-> sent]

\* after how many requests a cancelled fetch is given up
AbortPoints == {0, 1, 2, redirectLimit + 1}

(***************************************************************************)
(* handleGetPath: the goroutines                                           *)
(***************************************************************************)

Slots == DOMAIN task
Running == {i \in Slots : task[i] = "run"}

\* mutant: the semaphore send never blocks
SemaphoreUnbounded == TRUE

\* `semaphore <- struct{}{}` can proceed: the channel buffer is not full
SemaphoreHasRoom == semaphore < maxConcurrent

\* semaphore <- struct{}{}
Acquire(i) ==
    /\ i \in Slots
    /\ task[i] = "wait"
    /\ SemaphoreHasRoom
    /\ semaphore' = semaphore + 1
    /\ task' = [task EXCEPT ![i] = "run"]
    /\ UNCHANGED <<storeVars, httpVars, postVars, gUrls, wg, resultChan, chanClosed,
                   results, response, served, requested>>

\* mutant: the fetch runs under a context of its own
FetchCtxBackground == FALSE

\* ctx of context.WithTimeout(req.Context(), 30*time.Second) is done because
\* its parent is (its own deadline is env.fail = "timeout")
FetchCtxDone == ctxDone

\* mutant: the slot is kept
ReleaseForgotten(sem) == sem

\* defer func() { <-semaphore }()
Release(sem) == sem - 1

\* mutant: the WaitGroup is not counted down
DoneForgotten(n) == n

\* defer wg.Done()
Done(n) == n - 1

\* mutant: a goroutine whose fetch failed goes round again
AfterSendRetry(result) == IF "error" \in result.keys THEN "run" ELSE "done"

\* `resultChan <- ...; return` on every path of the goroutine
AfterSend(result) == "done"

\* the rest of the goroutine: it builds its result, sends it on resultChan
\* (never blocking: the buffer holds len(urls) values), then the deferred
\* calls free the slot and count the WaitGroup down
FetchTask(i, env) ==
    /\ i \in Slots
    /\ task[i] = "run"
    /\ \E k \in IF FetchCtxDone THEN AbortPoints ELSE {0} :
          LET f == IF FetchCtxDone THEN FetchAborted(gUrls[i], env, k)
                   ELSE Fetch(gUrls[i], env)
          IN /\ resultChan' = Append(resultChan, [index |-> i, result |-> f.result])
             /\ requested' = [requested EXCEPT ![i] = f.reqs]
             /\ served' = [served EXCEPT ![i] = IF f.reqs = <<>> THEN NoEnv ELSE env]
             /\ task' = [task EXCEPT ![i] = AfterSend(f.result)]
    /\ semaphore' = Release(semaphore)
    /\ wg' = Done(wg)
    /\ UNCHANGED <<storeVars, httpVars, postVars, gUrls, chanClosed, results, response>>

\* mutant: the closer does not wait
WaitReturnsAtOnce == TRUE

\* wg.Wait() returns
WaitReturns == wg = 0

\* go func() { wg.Wait(); close(resultChan) }()
CloseChan ==
    /\ WaitReturns
    /\ ~chanClosed
    /\ chanClosed' = TRUE
    /\ UNCHANGED <<storeVars, httpVars, postVars, gUrls, task, semaphore, wg, resultChan,
                   results, response, served, requested>>

\* mutant: the result goes to the first slot that is still empty
FirstEmptySlot(r) ==
    CHOOSE k \in 1..Len(results) :
        /\ results[k] = EmptyResult
        /\ \A j \in 1..(k - 1) : results[j] # EmptyResult

\* results[result.index]
ResultSlot(r) == r.index

\* one iteration of `for result := range resultChan`
Collect ==
    /\ resultChan # <<>>
    /\ results' = [results EXCEPT ![ResultSlot(Head(resultChan))] = Head(resultChan).result]
    /\ resultChan' = Tail(resultChan)
    /\ UNCHANGED <<storeVars, httpVars, postVars, gUrls, task, semaphore, wg, chanClosed,
                   response, served, requested>>

\* the range loop ends on the closed, drained channel; the response is encoded
Respond ==
    /\ resultChan = <<>>
    /\ chanClosed
    /\ response = NoResponse
    /\ response' = [status |-> 200, results |-> results]
    /\ UNCHANGED <<storeVars, httpVars, postVars, gUrls, task, semaphore, wg, resultChan,
                   chanClosed, results, served, requested>>

(***************************************************************************)
(* SpecFetch, SpecSem                                                      *)
(***************************************************************************)

\* longest stored list of a path in SpecFetch
MaxUrls == 2
\* how many more URLs than semaphore slots the path of SpecSem holds
SemExtra == 1

\* stored URLs: two that pass validateURL and one, written through the
\* provider, that does not
FetchURLs ==
    {"https://example.com", "https://httpbin.org/json", "http://127.0.0.1/x",
     "HTTP://EXAMPLE.COM/"}

\* handleGetPath after GetURLsByPath returned list and the loop started one
\* goroutine per record (slot i of the model is index i - 1 of the code)
GetStarted(list) ==
    /\ gUrls = list
    /\ task = [i \in 1..Len(list) |-> "wait"]
    /\ semaphore = 0
    /\ wg = Len(list)
    /\ resultChan = <<>>
    /\ chanClosed = FALSE
    /\ results = [i \in 1..Len(list) |-> EmptyResult]
    /\ response = NoResponse
    /\ served = [i \in 1..Len(list) |-> NoEnv]
    /\ requested = [i \in 1..Len(list) |-> <<>>]

PostIdle ==
    /\ body = <<>>
    /\ postIdx = 0
    /\ validURLs = <<>>
    /\ invalidURLs = <<>>
    /\ postResp = NoPostResp

InitFetch ==
    /\ dbtype = "memory"
    /\ MemInit
    /\ PgInit
    /\ ProcInit
    /\ HistInit
    /\ PostIdle
    /\ hpc = "get_fetch"
    /\ ctxDone = FALSE
    /\ hpath = "a"
    /\ \E list \in SeqsUpTo(FetchURLs, MaxUrls) : GetStarted(list)

NextFetch ==
    \/ \E i \in Slots : Acquire(i)
    \/ \E i \in Slots, env \in Envs : FetchTask(i, env)
    \/ CloseChan
    \/ Collect
    \/ Respond

\* one handleGetPath call over a stored list of at most MaxUrls URLs, with
\* every behaviour of the network in Envs
SpecFetch == InitFetch /\ [][NextFetch]_vars

\* the caller goes away while handleGetPath runs: net/http cancels
\* req.Context()
Cancel ==
    /\ hpc = "get_fetch"
    /\ response = NoResponse
    /\ ~ctxDone
    /\ ctxDone' = TRUE
    /\ UNCHANGED <<storeVars, postVars, getVars, hpc, hpath, postResp>>

\* what the network does in SpecCancel
CancelEnvs ==
    {Env(0, "", "none", 5, "text/html", 200),
     Env(1, PublicLocation, "none", 5, "text/html", 200),
     Env(redirectLimit - 1, PublicLocation, "none", 5, "image/png", 200),
     Env(Endless, PublicLocation, "none", 5, "text/html", 200),
     Env(0, "", "network", 5, "text/html", 200),
     Env(0, "", "read", 5, "text/html", 200)}

NextCancel ==
    \/ \E i \in Slots : Acquire(i)
    \/ \E i \in Slots, env \in CancelEnvs : FetchTask(i, env)
    \/ CloseChan
    \/ Collect
    \/ Respond
    \/ Cancel

\* Every goroutine of the call keeps running: a send on a channel with room,
\* a fetch (bounded by the 30 s timeout), close and the range loop all end.
FairCancel ==
    /\ WF_vars(\E i \in Slots : Acquire(i))
    /\ WF_vars(\E i \in Slots, env \in CancelEnvs : FetchTask(i, env))
    /\ WF_vars(CloseChan)
    /\ WF_vars(Collect)
    /\ WF_vars(Respond)

\* one handleGetPath call whose caller may go away at any moment
SpecCancel == InitFetch /\ [][NextCancel]_vars /\ FairCancel

\* a page that answers at once with a short text body
PlainEnv == Env(0, "", "none", 5, "text/html", 200)

InitSem ==
    /\ dbtype = "memory"
    /\ MemInit
    /\ PgInit
    /\ ProcInit
    /\ HistInit
    /\ PostIdle
    /\ hpc = "get_fetch"
    /\ ctxDone = FALSE
    /\ hpath = "a"
    /\ GetStarted([i \in 1..(maxConcurrent + SemExtra) |-> "https://example.com"])

\* The goroutines never wait for the collecting loop (resultChan holds
\* len(urls) values), so the loop's pace does not change which goroutines
\* can hold a slot together: here it receives each result before the next
\* goroutine moves.
NextSem ==
    \/ resultChan = <<>> /\ \E i \in Slots : Acquire(i)
    \/ resultChan = <<>> /\ \E i \in Slots : FetchTask(i, PlainEnv)
    \/ CloseChan
    \/ Collect
    \/ Respond

\* one handleGetPath call over maxConcurrent + SemExtra URLs
SpecSem == InitSem /\ [][NextSem]_vars

\* the stored list is one of the short lists of InitFetch
Short == Len(gUrls) <= MaxUrls

\* the goroutines of a short list take their steps in any order and meet
\* every outcome of CancelEnvs; those of the long list of InitSem move as in
\* NextSem and, being alike (same URL, same page), take the free slot in the
\* order of their indices
TermAcquire ==
    \E i \in Slots :
        /\ Short \/ (resultChan = <<>> /\ \A j \in 1..(i - 1) : task[j] # "wait")
        /\ Acquire(i)

TermFetch ==
    /\ Short \/ resultChan = <<>>
    /\ \E i \in Slots, env \in IF Short THEN CancelEnvs ELSE {PlainEnv} : FetchTask(i, env)

NextTerm ==
    \/ TermAcquire
    \/ TermFetch
    \/ CloseChan
    \/ Collect
    \/ Respond

\* Every goroutine of the call keeps running, and every HTTP request returns
\* or times out (30 s).
FairTerm ==
    /\ WF_vars(TermAcquire)
    /\ WF_vars(TermFetch)
    /\ WF_vars(CloseChan)
    /\ WF_vars(Collect)
    /\ WF_vars(Respond)

\* a call over a short list or over the long one
InitTerm == InitFetch \/ InitSem

\* one handleGetPath call from its start to its return
SpecTerm == InitTerm /\ [][NextTerm]_vars /\ FairTerm

(***************************************************************************)
(* ServeHTTP: whole requests against the provider                          *)
(***************************************************************************)

\* the goroutine that serves the request
Handler == 1

\* the lists a POST body can hold, over two URLs that validateURL accepts
\* and one that it rejects: none, all, the first or the last of them valid
HttpLists ==
    {<<>>,
     <<"https://example.com">>,
     <<"http://127.0.0.1/x">>,
     <<"https://example.com", "https://httpbin.org/json">>,
     <<"https://example.com", "http://127.0.0.1/x">>,
     <<"http://127.0.0.1/x", "https://httpbin.org/json">>,
     <<"http://127.0.0.1/x", "http://127.0.0.1/x">>}

\* request bodies: text that is not JSON of the expected shape, an object
\* without urls, an object with a list of URLs (the empty list included)
HttpBodies ==
    {[kind |-> "malformed", urls |-> <<>>], [kind |-> "no-urls", urls |-> <<>>]}
    \cup {[kind |-> "list", urls |-> l] : l \in HttpLists}

\* json.NewDecoder(req.Body).Decode(&body)
DecodeBody(b) ==
    [err |-> b.kind = "malformed",
     URLs |-> IF b.kind = "list" THEN b.urls ELSE <<>>]

\* http.Error(w, text, status)
HttpError(status, text) == [NoPostResp EXCEPT !.status = status, !.text = text]

\* mutant: the count is the number of URLs submitted
StoreResponseCountingAll(err) ==
    IF err # "nil" THEN HttpError(500, "Failed to store URLs")
    ELSE [status |-> 201, text |-> "URLs stored successfully", count |-> Len(body),
          invalid |-> invalidURLs, warning |-> invalidURLs # <<>>]

\* handlePostPath after StoreURLsForPath returned err
StoreResponse(err) ==
    IF err # "nil" THEN HttpError(500, "Failed to store URLs")
    ELSE [status |-> 201, text |-> "URLs stored successfully", count |-> Len(validURLs),
          invalid |-> invalidURLs, warning |-> invalidURLs # <<>>]

\* handlePostPath up to the validation loop
PostReceive(path, b) ==
    /\ hpc = "idle"
    /\ hpath' = path
    /\ ctxDone' = FALSE
    /\ LET d == DecodeBody(b)
       IN IF d.err
          THEN /\ postResp' = HttpError(400, "Invalid request body")
               /\ hpc' = "done"
               /\ UNCHANGED postVars
          ELSE IF Len(d.URLs) = 0
          THEN /\ postResp' = HttpError(400, "No URLs provided")
               /\ hpc' = "done"
               /\ UNCHANGED postVars
          ELSE /\ body' = d.URLs
               /\ hpc' = "post_loop"
               /\ UNCHANGED <<postIdx, validURLs, invalidURLs, postResp>>
    /\ UNCHANGED <<storeVars, getVars>>

\* mutant: a request without a valid URL goes on to StoreURLsForPath
StoresWithoutValidURL == FALSE

\* if len(validURLs) == 0
NoValidURL == Len(validURLs) = 0

\* handlePostPath after the validation loop
PostLoopEnd ==
    /\ hpc = "post_loop"
    /\ postIdx = Len(body)
    /\ IF NoValidURL
       THEN /\ postResp' = [HttpError(400, "All URLs are invalid") EXCEPT
                                !.invalid = invalidURLs]
            /\ hpc' = "done"
       ELSE /\ hpc' = "post_call"
            /\ UNCHANGED postResp
    /\ UNCHANGED <<storeVars, postVars, getVars, hpath, ctxDone>>

\* mutant: the whole body is stored
StoredURLsWholeBody == body

\* the list handed to h.DB.StoreURLsForPath
StoredURLs == validURLs

\* h.DB.StoreURLsForPath(req.Context(), path, validURLs) is called
PostCallStore ==
    /\ hpc = "post_call"
    /\ \/ MemStoreLock(Handler, hpath, StoredURLs)
       \/ PgStoreCall(Handler, hpath, StoredURLs)

\* StoreURLsForPath returns and handlePostPath writes its response
PostStoreReturn ==
    /\ hpc = "post_call"
    /\ \/ /\ dbtype = "memory"
          /\ MemStoreReturns(Handler)
          /\ postResp' = StoreResponse("nil")
       \/ /\ dbtype = "postgres"
          /\ arg[Handler].op = "store"
          /\ PgReturns(Handler)
          /\ postResp' = StoreResponse(ret[Handler].err)
    /\ hpc' = "done"
    /\ UNCHANGED <<postVars, getVars, hpath, ctxDone>>

\* handleGetPath up to the call of the provider
GetReceive(path) ==
    /\ hpc = "idle"
    /\ hpath' = path
    /\ ctxDone' = FALSE
    /\ hpc' = "get_call"
    /\ UNCHANGED <<storeVars, postVars, getVars, postResp>>

\* h.DB.GetURLsByPath(req.Context(), path) is called
GetCallLookup ==
    /\ hpc = "get_call"
    /\ \/ MemGetRLock(Handler, hpath)
       \/ PgGetCall(Handler, hpath)

\* mutant: the goroutines are started whatever GetURLsByPath returned
LookupFailedNever(err) == FALSE

\* if err != nil
LookupFailed(err) == err # "nil"

\* handleGetPath after GetURLsByPath returned r: the error response, or one
\* goroutine started per record
GetAfterLookup(r) ==
    IF LookupFailed(r.err)
    THEN /\ response' = [status |-> 500, results |-> <<>>]
         /\ hpc' = "done"
         /\ UNCHANGED <<gUrls, task, semaphore, wg, resultChan, chanClosed, results,
                        served, requested>>
    ELSE /\ gUrls' = URLsOf(r.recs)
         /\ task' = [i \in 1..Len(r.recs) |-> "wait"]
         /\ semaphore' = 0
         /\ wg' = Len(r.recs)
         /\ resultChan' = <<>>
         /\ chanClosed' = FALSE
         /\ results' = [i \in 1..Len(r.recs) |-> EmptyResult]
         /\ served' = [i \in 1..Len(r.recs) |-> NoEnv]
         /\ requested' = [i \in 1..Len(r.recs) |-> <<>>]
         /\ hpc' = "get_fetch"
         /\ UNCHANGED response

\* GetURLsByPath returns to handleGetPath
GetLookupReturn ==
    /\ hpc = "get_call"
    /\ \/ /\ dbtype = "memory"
          /\ MemGetReturns(Handler)
          /\ GetAfterLookup([ret[Handler] EXCEPT !.err = "nil"])
       \/ /\ dbtype = "postgres"
          /\ arg[Handler].op = "get"
          /\ PgReturns(Handler)
          /\ GetAfterLookup(ret[Handler])
    /\ UNCHANGED <<postVars, hpath, ctxDone, postResp>>

\* the handler returns and the goroutine serves the next request
HttpDone ==
    /\ \/ hpc = "done"
       \/ hpc = "get_fetch" /\ response # NoResponse
    /\ hpc' = "idle"
    /\ hpath' = None
    /\ ctxDone' = FALSE
    /\ postResp' = NoPostResp
    /\ body' = <<>>
    /\ postIdx' = 0
    /\ validURLs' = <<>>
    /\ invalidURLs' = <<>>
    /\ gUrls' = <<>>
    /\ task' = <<>>
    /\ semaphore' = 0
    /\ wg' = 0
    /\ resultChan' = <<>>
    /\ chanClosed' = FALSE
    /\ results' = <<>>
    /\ response' = NoResponse
    /\ served' = <<>>
    /\ requested' = <<>>
    /\ UNCHANGED storeVars

InitHttp ==
    /\ HandlerIdle
    /\ dbtype \in {"memory", "postgres"}
    /\ MemInit
    /\ PgInit
    /\ ProcInit
    /\ HistInit

\* a call of the provider is running
InCall == hpc \in {"post_call", "get_call"}

\* One goroutine serves POST and GET requests one after another. The backend
\* and the breaker's timers move only while a call of the provider is
\* running: their state matters at no other time. The fetched pages answer
\* at once and the results are collected as they arrive.
NextHttp ==
    \/ \E path \in Paths, b \in HttpBodies : PostReceive(path, b)
    \/ hpc = "post_loop" /\ PostValidateStep
    \/ PostLoopEnd
    \/ PostCallStore
    \/ PostStoreReturn
    \/ \E path \in Paths : GetReceive(path)
    \/ GetCallLookup
    \/ GetLookupReturn
    \/ MemStoreAssignID(Handler)
    \/ MemStoreWrite(Handler)
    \/ MemGetRead(Handler)
    \/ PgAttemptRejected(Handler)
    \/ PgAttemptBegin(Handler)
    \/ \E list \in HttpLists : \E step \in TxSteps(list) :
          PgStoreAttemptFail(Handler, step)
    \/ PgGetAttemptFail(Handler)
    \/ \E k \in 0..MaxBody * MaxStores : PgGetAttemptCut(Handler, k)
    \/ PgStoreAttemptOK(Handler)
    \/ PgGetAttemptOK(Handler)
    \/ InCall /\ CBCooldownElapsed
    \/ InCall /\ CBIntervalElapsed
    \/ InCall /\ BackendDown
    \/ InCall /\ BackendUp
    \/ hpc = "get_fetch" /\ resultChan = <<>> /\ \E i \in Slots : Acquire(i)
    \/ hpc = "get_fetch" /\ resultChan = <<>> /\ \E i \in Slots : FetchTask(i, PlainEnv)
    \/ hpc = "get_fetch" /\ CloseChan
    \/ hpc = "get_fetch" /\ Collect
    \/ hpc = "get_fetch" /\ Respond
    \/ HttpDone

SpecHttp == InitHttp /\ [][NextHttp]_vars

(***************************************************************************)
(* Claims about whole requests                                             *)
(***************************************************************************)

\* the URLs of the committed rows of a path
PgURLsOf(path) == LET rows == PgRowsOf(path) IN [i \in 1..Len(rows) |-> rows[i].url]

\* the step is the return of a durable call to the handler with an error
DurableCallFailed ==
    /\ dbtype = "postgres"
    /\ pc[Handler] = "pg_ret"
    /\ pc'[Handler] = "idle"
    /\ ret[Handler].err # "nil"

AllInvalid == \A i \in 1..Len(body) : validateURL(body[i]) # "nil"

\* C18 (SpecHttp). A POST whose body does not decode or holds no URL is
\* answered 400 at once; a POST whose URLs all fail validateURL is answered
\* 400 when the loop ends; and from the arrival of such a request to the end
\* of the handler no step calls the provider, changes what either provider
\* holds or sends a request. What the target path held stays.
C18_PostRejected ==
    /\ [](postResp.status = 400 =>
            /\ hpc = "done"
            /\ validURLs = <<>>
            /\ pc[Handler] = "idle"
            /\ task = <<>> /\ requested = <<>>)
    /\ [][/\ (hpc = "idle" /\ hpc' = "done") => postResp'.status = 400
          /\ (hpc = "idle" /\ hpc' = "post_loop") => (body' # <<>> /\ validURLs' = <<>>)
          /\ (hpc = "post_loop" /\ postIdx = Len(body) /\ AllInvalid) =>
                (hpc' = "done" /\ postResp'.status = 400
                 /\ postResp'.text = "All URLs are invalid"
                 /\ Len(postResp'.invalid) = Len(body))
          /\ hpc \in {"idle", "post_loop", "done"} =>
                UNCHANGED <<memVars, pgVars, pc, arg, lastStored, requested, task>>]_vars

\* a POST of two URLs, both rejected, to a path that holds URLs has been
\* answered 400
C18_Witness ==
    /\ postResp.status = 400
    /\ Len(postResp.invalid) = 2
    /\ hpath \in DOMAIN lastStored
    /\ lastStored[hpath] # <<>>
    /\ \/ dbtype = "memory" /\ paths[hpath] \in DOMAIN urls
       \/ dbtype = "postgres" /\ PgURLsOf(hpath) = lastStored[hpath]

\* what the provider holds for a path
StoredFor(path) ==
    IF dbtype = "memory"
    THEN IF path \in DOMAIN paths /\ paths[path] \in DOMAIN urls
         THEN urls[paths[path]] ELSE <<>>
    ELSE PgURLsOf(path)

\* the URLs of the body that validateURL accepts, in the order submitted
ValidOf(b) == SelectSeq(b, LAMBDA u : validateURL(u) = "nil")

\* what a 201 response says about the body
Acknowledged ==
    /\ postResp.text = "URLs stored successfully"
    /\ postResp.count = Len(ValidOf(body))
    /\ Len(postResp.invalid) = Len(body) - Len(ValidOf(body))
    /\ postResp.warning <=> Len(ValidOf(body)) < Len(body)
    /\ postResp.warning <=> postResp.invalid # <<>>

C19_Acknowledged ==
    [](postResp.status = 201 =>
            /\ Acknowledged
            /\ ValidOf(body) # <<>>
            /\ LET held == StoredFor(hpath)
                   n == Len(ValidOf(body))
               IN /\ Len(held) >= n
                  /\ SubSeq(held, Len(held) - n + 1, Len(held)) = ValidOf(body)
                  /\ dbtype = "memory" => held = ValidOf(body))

\* a POST of a rejected and an accepted URL to a path that held another list
\* has been answered 201
C19_Witness ==
    /\ postResp.status = 201
    /\ postResp.warning
    /\ postResp.count = 1
    /\ Len(body) = 2
    /\ stale[hpath] # {}

(***************************************************************************)
(* Claims about handleGetPath                                              *)
(***************************************************************************)

\* the handler has written its response
Answered == response.status # 0

\* the network answered task i with a final response whose body was read
\* and closed without error
ServedBody(i) ==
    /\ served[i] # NoEnv
    /\ served[i].fail = "none"
    /\ served[i].hops # Endless
    /\ served[i].hops < redirectLimit

\* C4 (SpecFetch). Index-stable results: whatever the order in which the
\* goroutines finish and their results are received, a filled slot i of the
\* results slice holds the result built by the goroutine started for record
\* i, so its url is the i-th stored URL; the response carries one slot per
\* stored record, all of them filled.
C4_IndexStable ==
    /\ Len(results) = Len(gUrls)
    /\ \A i \in 1..Len(results) :
         results[i] # EmptyResult =>
            /\ results[i].url = gUrls[i]
            /\ task[i] = "done"
            /\ results[i] = Fetch(gUrls[i], served[i]).result
    /\ Answered =>
         /\ Len(response.results) = Len(gUrls)
         /\ \A i \in 1..Len(gUrls) :
              /\ response.results[i] # EmptyResult
              /\ response.results[i].url = gUrls[i]

\* the second of two different URLs was received and stored before the first
C4_Witness ==
    /\ Len(gUrls) = 2
    /\ gUrls[1] # gUrls[2]
    /\ results[1] = EmptyResult
    /\ results[2] # EmptyResult
    /\ results[2].url = gUrls[2]

\* C5 (SpecSem). Bounded concurrency: at most maxConcurrent = 10 goroutines
\* are past the semaphore send at the same time, the semaphore holds one
\* value for each of them, and every other unfinished goroutine is still
\* before the send.
C5_BoundedConcurrency ==
    /\ Cardinality(Running) <= maxConcurrent
    /\ semaphore = Cardinality(Running)
    /\ \A i \in Slots : task[i] \in {"wait", "run", "done"}
    /\ wg = Cardinality({i \in Slots : task[i] # "done"})

\* ten goroutines hold the ten slots while another one waits for a slot
C5_Witness ==
    /\ Cardinality(Running) = maxConcurrent
    /\ \E i \in Slots : task[i] = "wait"
    /\ ~SemaphoreHasRoom

\* the outcome of task i is a failure: validation, network, timeout, too
\* many redirects, body read or body close
Fails(i) ==
    \/ validateURL(gUrls[i]) # "nil"
    \/ served[i].fail \in {"network", "timeout", "read", "close"}
    \/ served[i].hops = Endless
    \/ served[i].hops >= redirectLimit

\* C6 (SpecFetch). A failing URL never aborts the batch: the response is a
\* 200 with one result per stored URL; the result of a failing URL carries
\* its url and the error and nothing of a response, the result of every
\* other URL carries no error and keeps the status_code and the content of
\* what its own server sent.
C6_FailureIsolated ==
    Answered =>
        /\ response.status = 200
        /\ Len(response.results) = Len(gUrls)
        /\ \A i \in 1..Len(gUrls) :
             LET r == response.results[i]
             IN /\ r.url = gUrls[i]
                /\ Fails(i) =>
                     /\ r.keys = {"url", "error"}
                     /\ r.error # NoError
                /\ ~Fails(i) =>
                     /\ "error" \notin r.keys
                     /\ {"status_code", "content", "content_type"} \subseteq r.keys
                     /\ r.status_code = served[i].status
                     /\ r.content = ContentOf(served[i].ctype,
                                              Min(served[i].bodyLen, bodyLimit))

\* a response in which the first URL failed in the network and the second
\* was fetched
C6_Witness ==
    /\ Answered
    /\ Len(gUrls) = 2
    /\ served[1].fail = "timeout"
    /\ "error" \in response.results[1].keys
    /\ ~Fails(2)
    /\ response.results[2].status_code = 200

\* C7 (SpecFetch). Re-validation: a stored URL that validateURL rejects
\* gives a result with the error set and no HTTP request, and no task ever
\* sends a request to a URL that validateURL rejects.
C7_NoRequestToRejectedURL ==
    /\ \A i \in Slots :
         (task[i] = "done" /\ validateURL(gUrls[i]) # "nil") =>
            /\ requested[i] = <<>>
            /\ Answered => "error" \in response.results[i].keys
    /\ \A i \in Slots :
         \A k \in 1..Len(requested[i]) : validateURL(requested[i][k]) = "nil"

\* C9 (SpecFetch). Redirect limit: a task sends at most redirectLimit
\* redirect-following requests; when the chain has at most 10 redirects
\* before the final response the result is a success with that response,
\* and when it has more (or never ends) the result's error contains "too
\* many redirects" after a bounded number of requests.
C9_RedirectLimit ==
    Answered =>
        \A i \in 1..Len(gUrls) :
            (served[i] # NoEnv /\ served[i].fail = "none") =>
                LET r == response.results[i]
                    hops == served[i].hops
                IN /\ Len(requested[i]) <= redirectLimit + 1
                   /\ (hops # Endless /\ hops <= redirectLimit) =>
                        /\ "error" \notin r.keys
                        /\ "status_code" \in r.keys
                        /\ Len(requested[i]) = hops + 1
                   /\ (hops = Endless \/ hops > redirectLimit) =>
                        /\ "error" \in r.keys
                        /\ ErrContains(r.error, "too many redirects")

\* C10 (SpecFetch). Truncation: when the body the server sent is longer than
\* bodyLimit = 1 MiB and is read without error, the result's content is the
\* first bodyLimit bytes of the body (as text, or their base64 encoding), the
\* result carries the truncation warning and no error, and it carries the
\* status_code and the content_type of the response.
C10_Truncation ==
    Answered =>
        \A i \in 1..Len(gUrls) :
            (ServedBody(i) /\ served[i].bodyLen > bodyLimit) =>
                LET r == response.results[i]
                IN /\ "content" \in r.keys
                   /\ r.content.bytes = bodyLimit
                   /\ r.content.enc = "raw" => r.content.len = bodyLimit
                   /\ r.content.enc = "base64" => r.content.len = Base64Len(bodyLimit)
                   /\ "warning" \in r.keys
                   /\ r.warning = "Response truncated due to size limit (1MB)"
                   /\ "error" \notin r.keys
                   /\ {"status_code", "content_type"} \subseteq r.keys
                   /\ r.status_code = served[i].status
                   /\ r.content_type = served[i].ctype

\* a response holding the result of a 2 MiB text body
C10_Witness ==
    /\ Answered
    /\ \E i \in 1..Len(gUrls) :
         /\ ServedBody(i)
         /\ served[i].bodyLen = 2 * bodyLimit
         /\ served[i].ctype = "text/html"
         /\ response.results[i].content.len = bodyLimit

\* C25 (SpecHttp). The store only holds validated URLs: whatever POST and
\* GET requests the handler has served, every URL stored for a path passes
\* validateURL, and no result of a GET is the validation error of its URL.
C25_StoreHoldsValidated ==
    /\ \A path \in Paths :
          \A k \in 1..Len(StoredFor(path)) : validateURL(StoredFor(path)[k]) = "nil"
    /\ response # NoResponse =>
          \A i \in 1..Len(response.results) :
              /\ validateURL(gUrls[i]) = "nil"
              /\ response.results[i].error # <<validateURL(response.results[i].url)>>
              /\ requested[i] # <<>>

\* a POST with accepted and refused URLs has stored its accepted ones
C25_Witness ==
    /\ postResp.status = 201
    /\ postResp.invalid # <<>>
    /\ StoredFor(hpath) # <<>>

GUARDZ_TEST_ALLOWLIST == "127.0.0.1"

\* an http URL whose host the allowlist names
Allowlisted(u) ==
    /\ ParseURL(u).ok
    /\ ParseURL(u).scheme = "http"
    /\ ParseURL(u).host = GUARDZ_TEST_ALLOWLIST

\* C33 (SpecHttp). Test allowlist: with GUARDZ_TEST_ALLOWLIST naming a host,
\* the validation loop refuses no http URL of that host, a POST of such URLs
\* to the in-memory provider answers 201, and a GET reports status_code and
\* content for every such URL.
C33_TestAllowlist ==
    /\ \A k \in 1..Len(invalidURLs) : ~Allowlisted(invalidURLs[k].url)
    /\ (dbtype = "memory" /\ postResp.status # 0 /\ body # <<>>
            /\ \A k \in 1..Len(body) : Allowlisted(body[k])) => postResp.status = 201
    /\ response # NoResponse =>
          \A i \in 1..Len(response.results) :
              Allowlisted(gUrls[i]) =>
                  {"status_code", "content"} \subseteq response.results[i].keys

\* handleGetPath has returned: every goroutine sent its result and ended, the
\* channel is closed and drained, and the response holds a result per URL
Returned ==
    /\ \A i \in Slots : task[i] = "done"
    /\ chanClosed
    /\ resultChan = <<>>
    /\ response # NoResponse
    /\ \A i \in Slots : response.results[i] # EmptyResult

\* C22 (SpecCancel). Cancellation: once the caller's context is cancelled,
\* every goroutine that has not yet sent its result sends an error result
\* (its fetch is given up or never begins), and the call still ends: all
\* results are delivered, the channel is closed and the handler returns.
C22_Cancellation ==
    /\ [][\A i \in Slots :
            (ctxDone /\ task[i] # "done" /\ task'[i] = "done") =>
                LET r == resultChan'[Len(resultChan')]
                IN /\ r.index = i
                   /\ "error" \in r.result.keys
                   /\ "content" \notin r.result.keys]_vars
    /\ ctxDone ~> Returned

\* a cancelled call that has returned, with one fetch given up after its first
\* request and one given up before any request
C22_Witness ==
    /\ ctxDone
    /\ Returned
    /\ \E i, j \in Slots :
          /\ Len(requested[i]) = 1
          /\ requested[j] = <<>>
          /\ validateURL(gUrls[j]) = "nil"
          /\ ErrContains(response.results[i].error, "context canceled")
          /\ ErrContains(response.results[j].error, "context canceled")

\* how many results of task i have been sent: those still in the channel and
\* the one the range loop has stored
Delivered(i) ==
    Cardinality({k \in 1..Len(resultChan) : resultChan[k].index = i})
        + (IF results[i] # EmptyResult THEN 1 ELSE 0)

\* C23 (SpecFetch). No retries at the fetch layer: each stored URL has one
\* task, which sends its first request (to the stored URL) at most once and
\* delivers one result; once it has sent requests or delivered a result, no
\* further request is sent for that URL and the result is not replaced.
C23_NoRetry ==
    /\ [](\A i \in Slots :
            /\ Delivered(i) <= 1
            /\ (task[i] = "done") <=> (Delivered(i) = 1)
            /\ requested[i] # <<>> => (task[i] = "done" /\ requested[i][1] = gUrls[i]))
    /\ [][\A i \in Slots :
            /\ task[i] = "done" => task'[i] = "done"
            /\ requested[i] # <<>> => requested'[i] = requested[i]
            /\ results[i] # EmptyResult => results'[i] = results[i]]_vars

\* a failed fetch whose one result is in the response, beside a second task
C23_Witness ==
    /\ Answered
    /\ Len(gUrls) = 2
    /\ \E i \in Slots :
          /\ Len(requested[i]) = 1
          /\ "error" \in response.results[i].keys
          /\ served[i].fail \in {"network", "timeout", "read"}

\* C34 (SpecTerm). handleGetPath terminates: for a list of 0, 1, 2 or 11
\* URLs and every outcome of each fetch, every goroutine gets a slot, sends
\* its result and frees the slot, the channel is closed, the loop ends and
\* the response is written; no slot stays taken.
C34_Terminates == <>[](Returned /\ semaphore = 0 /\ wg = 0)

\* the call over 11 URLs has returned
C34_Witness ==
    /\ Returned
    /\ Len(gUrls) > maxConcurrent
    /\ semaphore = 0

\* how many results carrying index i are in resultChan
InChan(i) == Cardinality({k \in 1..Len(resultChan) : resultChan[k].index = i})

\* C35 (SpecTerm). Result-channel discipline: every goroutine sends exactly
\* one result, whatever path it takes; resultChan never holds more than
\* len(urls) values, so a send finds room; the channel is closed only after
\* every goroutine has sent and finished, so nothing is sent on the closed
\* channel; the loop has received exactly one result per index when the
\* response is written.
C35_ChannelDiscipline ==
    /\ [](/\ Len(resultChan) <= Len(gUrls)
          /\ \A i \in Slots :
                InChan(i) + (IF results[i] # EmptyResult THEN 1 ELSE 0)
                    = (IF task[i] = "done" THEN 1 ELSE 0)
          /\ chanClosed => (wg = 0 /\ \A i \in Slots : task[i] = "done")
          /\ response # NoResponse =>
                /\ Len(response.results) = Len(gUrls)
                /\ \A i \in Slots : /\ InChan(i) = 0
                                    /\ response.results[i] # EmptyResult
                                    /\ response.results[i].url = gUrls[i])
    /\ [][Len(resultChan') > Len(resultChan) =>
            /\ ~chanClosed
            /\ Len(resultChan) < Len(gUrls)
            /\ Len(resultChan') = Len(resultChan) + 1]_vars

\* the channel of the long list is closed after the last goroutine sent, with
\* results still waiting to be received
C35_Witness ==
    /\ chanClosed
    /\ resultChan # <<>>
    /\ Len(gUrls) > maxConcurrent

\* C39 (SpecTerm). Semaphore balance: a goroutine takes one slot before it
\* does anything else and gives that slot back on every way out (validation
\* failure, request error, read error, success); the slots held are those of
\* the goroutines between the two, never more than 10, and none once the
\* handler has answered.
C39_SemaphoreBalance ==
    /\ [](/\ semaphore = Cardinality(Running)
          /\ semaphore \in 0..maxConcurrent
          /\ \A i \in Slots :
                task[i] = "wait" =>
                    (requested[i] = <<>> /\ InChan(i) = 0 /\ results[i] = EmptyResult)
          /\ response # NoResponse => semaphore = 0)
    /\ [][\A i \in Slots :
            /\ task[i] = "wait" =>
                  \/ task'[i] = "wait"
                  \/ task'[i] = "run" /\ semaphore' = semaphore + 1
            /\ task[i] = "run" =>
                  \/ task'[i] = "run"
                  \/ task'[i] = "done" /\ semaphore' = semaphore - 1
            /\ task[i] = "done" => task'[i] = "done"]_vars

\* a call has answered with every slot free after one goroutine left on a
\* validation failure and another on an error met after its request
C39_Witness ==
    /\ response # NoResponse
    /\ semaphore = 0
    /\ \E i, j \in Slots :
          /\ "error" \in response.results[i].keys
          /\ requested[i] = <<>>
          /\ "error" \in response.results[j].keys
          /\ requested[j] # <<>>

\* the result of task i is a success: every request was answered and the
\* body was read and closed without error
Succeeded(i) == ServedBody(i) /\ "error" \notin response.results[i].keys

\* C21 (SpecFetch). Redirect reporting: in the result of every successful
\* fetch, redirected is true exactly when the task sent more than one
\* request; then final_url is the URL of the last request and original_url
\* the stored URL; otherwise there is no final_url. status_code and
\* content_type are those of the final response.
C21_RedirectReporting ==
    Answered =>
        \A i \in 1..Len(gUrls) :
            Succeeded(i) =>
                LET r == response.results[i]
                    n == Len(requested[i])
                IN /\ "redirected" \in r.keys
                   /\ r.redirected <=> n > 1
                   /\ r.redirected =>
                        /\ {"final_url", "original_url"} \subseteq r.keys
                        /\ r.final_url = requested[i][n]
                        /\ r.original_url = gUrls[i]
                   /\ ~r.redirected => "final_url" \notin r.keys
                   /\ r.status_code = served[i].status
                   /\ r.content_type = served[i].ctype

\* C26 (SpecFetch). A result carries the truncation warning only if the
\* body the server sent was longer than bodyLimit; a body of at most
\* bodyLimit bytes is returned whole.
C26_WarningOnlyIfTruncated ==
    Answered =>
        \A i \in 1..Len(gUrls) :
            (Succeeded(i) /\ served[i].bodyLen <= bodyLimit) =>
                /\ "warning" \notin response.results[i].keys
                /\ response.results[i].content.bytes = served[i].bodyLen

\* the Content-Type values that begin with text/ or contain json or xml
TextualTypes ==
    {"text/html", "text/plain; charset=utf-8", "application/json",
     "application/xml", "image/svg+xml"}

\* C11 (SpecFetch). Content classification: the content of every result that
\* carries one is the body as text exactly when the response's Content-Type
\* begins with text/ or contains json or xml, and is the base64 encoding of
\* the body for every other Content-Type (image/png,
\* application/octet-stream and the empty one among them).
C11_ContentClassification ==
    Answered =>
        \A i \in 1..Len(gUrls) :
            LET r == response.results[i]
            IN "content" \in r.keys =>
                 /\ r.content_type = served[i].ctype
                 /\ r.content.enc \in {"raw", "base64"}
                 /\ (r.content.enc = "raw") <=> (served[i].ctype \in TextualTypes)
                 /\ r.content.enc = "raw" => r.content.len = r.content.bytes
                 /\ r.content.enc = "base64" =>
                      /\ r.content.len % 4 = 0
                      /\ r.content.len >= r.content.bytes
                      /\ r.content.bytes > 0 => r.content.len > r.content.bytes

\* a response with a JSON body kept as text beside an octet-stream in base64
C11_Witness ==
    /\ Answered
    /\ Len(gUrls) = 2
    /\ served[1].ctype = "application/json"
    /\ response.results[1].content.enc = "raw"
    /\ served[2].ctype = "application/octet-stream"
    /\ response.results[2].content.enc = "base64"

SuccessKeys == {"status_code", "content_type", "content", "redirected",
                "original_url", "final_url", "warning"}

\* the two shapes of a fetch result
ErrorShape(r) ==
    /\ r.keys = {"url", "error"}
    /\ r.error # NoError
SuccessShape(r) ==
    /\ {"url", "status_code", "content_type", "content", "redirected"} \subseteq r.keys
    /\ r.keys \subseteq {"url"} \cup SuccessKeys
    /\ r.error = NoError

\* C20 (SpecFetch). Error and success fields exclude each other: every result
\* a goroutine has sent - still in the channel, stored in the results slice
\* or written in the response - carries its url and either the error alone
\* (no status_code, content_type, content, redirected, final_url or warning)
\* or status_code, content_type, content and redirected without an error.
C20_ErrorXorSuccess ==
    LET sent == {resultChan[k].result : k \in 1..Len(resultChan)}
                \cup {results[i] : i \in {j \in 1..Len(results) : results[j] # EmptyResult}}
                \cup {response.results[i] : i \in 1..Len(response.results)}
    IN \A r \in sent :
         /\ "url" \in r.keys
         /\ ErrorShape(r) \/ SuccessShape(r)
         /\ ~(ErrorShape(r) /\ SuccessShape(r))
         /\ "error" \in r.keys => r.keys \cap SuccessKeys = {}
         /\ {"status_code", "content"} \subseteq r.keys => "error" \notin r.keys

\* a response with a redirected success beside a read error
C20_Witness ==
    /\ Answered
    /\ \E i, j \in 1..Len(gUrls) :
         /\ ErrorShape(response.results[i])
         /\ served[i].fail = "read"
         /\ SuccessShape(response.results[j])
         /\ "final_url" \in response.results[j].keys
====
